---------------------------- MODULE Spec2Model ----------------------------
(***************************************************************************)
(* A model of the werkverzeichnis library (wv): the index builder and the  *)
(* persisted index (index.rs), the query engine (query.rs), the catalog    *)
(* sort-key algebra (catalog.rs) and the attribution merge (merge.rs).     *)
(*                                                                         *)
(* Rust Strings are sequences of one-character strings, so that prefix     *)
(* tests, case folding, integer parsing, pattern matching and byte-wise    *)
(* comparison are computed and not assumed.  Option<T> is a sequence of    *)
(* length at most one: None is << >> and Some(v) is <<v>>.  A HashMap is a *)
(* function whose DOMAIN is its key set; the order in which a HashMap is   *)
(* iterated is unspecified in Rust and is an input of the action that      *)
(* iterates it.                                                            *)
(***************************************************************************)
EXTENDS Integers, Sequences, FiniteSets, TLC

VARIABLES
    compositions,     \* data_dir/compositions: file id -> document
    collections,      \* data_dir/collections: collection id -> its attribution list
    catalog_defs,     \* data_dir/composers and data_dir/catalogs: the definitions on disk
    pc,               \* "idle" | "scanning" | "built" | "answered": position of the run
    todo,             \* files the directory scan has not yet yielded
    index,            \* the Index under construction / built
    edition_entries,  \* build_index's local Vec<EditionEntry>
    query,            \* the Query of the last terminal operation
    result,           \* what that terminal operation returned
    call,             \* a direct call of a library function: its name and arguments
    ret,              \* what that call returned: None before the call returns
    files             \* modification times, readability and data_dir/.indexes

vars == <<compositions, collections, catalog_defs, pc, todo, index, edition_entries, query,
          result, call, ret, files>>

---------------------------------------------------------------------------
(* Bounds of the model.                                                    *)

\* Number of composition files in the document tree.
MaxDocs == 2

---------------------------------------------------------------------------
(* Option<T>                                                               *)

None == << >>

Some(v) == <<v>>

IsSome(o) == o # << >>

Unwrap(o) == o[1]

Range(s) == {s[i] : i \in DOMAIN s}

---------------------------------------------------------------------------
(* Strings                                                                 *)

\* The ASCII characters of the model's strings, by class and in byte order.
DigitChars == <<"0", "1", "2", "3", "4", "5", "6", "7", "8", "9">>

UpperChars == <<"A", "B", "C", "D", "E", "F", "G", "H", "I", "J", "K", "L", "M",
                "N", "O", "P", "Q", "R", "S", "T", "U", "V", "W", "X", "Y", "Z">>

LowerChars == <<"a", "b", "c", "d", "e", "f", "g", "h", "i", "j", "k", "l", "m",
                "n", "o", "p", "q", "r", "s", "t", "u", "v", "w", "x", "y", "z">>

PunctCode == [c \in {" ", "+", "-", ".", "/", ":"} |->
                 CASE c = " " -> 32 [] c = "+" -> 43 [] c = "-" -> 45
                   [] c = "." -> 46 [] c = "/" -> 47 [] c = ":" -> 58]

\* Byte value of a character.
CharCode ==
    [c \in Range(DigitChars) \cup Range(UpperChars) \cup Range(LowerChars)
            \cup DOMAIN PunctCode |->
        IF c \in Range(DigitChars)
        THEN 47 + (CHOOSE i \in 1..10 : DigitChars[i] = c)
        ELSE IF c \in Range(UpperChars)
        THEN 64 + (CHOOSE i \in 1..26 : UpperChars[i] = c)
        ELSE IF c \in Range(LowerChars)
        THEN 96 + (CHOOSE i \in 1..26 : LowerChars[i] = c)
        ELSE PunctCode[c]]

IsDigit(c) == CharCode[c] >= 48 /\ CharCode[c] <= 57

IsUpper(c) == CharCode[c] >= 65 /\ CharCode[c] <= 90

IsLower(c) == CharCode[c] >= 97 /\ CharCode[c] <= 122

\* char::to_lowercase on ASCII: an upper-case letter moves up by 32.
LowerChar(c) == IF IsUpper(c) THEN LowerChars[CharCode[c] - 64] ELSE c

UpperChar(c) == IF IsLower(c) THEN UpperChars[CharCode[c] - 96] ELSE c

to_lowercase(s) == [i \in 1..Len(s) |-> LowerChar(s[i])]

to_uppercase(s) == [i \in 1..Len(s) |-> UpperChar(s[i])]

starts_with(s, p) ==
    /\ Len(p) <= Len(s)
    /\ \A i \in 1..Len(p) : s[i] = p[i]

\* Ord for str: byte-wise lexicographic; a proper prefix is smaller.
StrLess(a, b) ==
    \E i \in 1..(Len(b)) :
        /\ \A j \in 1..(i - 1) : j <= Len(a) /\ a[j] = b[j]
        /\ i - 1 <= Len(a)
        /\ (i > Len(a) \/ CharCode[a[i]] < CharCode[b[i]])

StrLeq(a, b) == a = b \/ StrLess(a, b)

RECURSIVE DigitsValue(_)
DigitsValue(s) ==
    IF s = << >> THEN 0
    ELSE 10 * DigitsValue(SubSeq(s, 1, Len(s) - 1)) + (CharCode[s[Len(s)]] - 48)

AllDigits(s) == s # << >> /\ \A i \in 1..Len(s) : IsDigit(s[i])

\* An optional sign followed by one or more decimal digits.
IsDecimal(s) ==
    AllDigits(IF s # << >> /\ s[1] \in {"+", "-"} THEN SubSeq(s, 2, Len(s)) ELSE s)

DecimalValue(s) ==
    IF s[1] = "-" THEN 0 - DigitsValue(SubSeq(s, 2, Len(s)))
    ELSE IF s[1] = "+" THEN DigitsValue(SubSeq(s, 2, Len(s)))
    ELSE DigitsValue(s)

I32Max == 2147483647

\* edition.parse::<i32>().unwrap_or(0): text that is no decimal number, or a
\* value outside i32, is an Err and yields 0.
ParseI32OrZero(s) ==
    IF IsDecimal(s) /\ DecimalValue(s) <= I32Max /\ DecimalValue(s) >= 0 - I32Max - 1
    THEN DecimalValue(s) ELSE 0

\* s.parse::<i64>().unwrap_or(0).  A value outside i64 needs 19 digits; the
\* strings of the model have at most 9, so the range check never fails.
ParseI64OrZero(s) == IF IsDecimal(s) THEN DecimalValue(s) ELSE 0

---------------------------------------------------------------------------
(* HashMap                                                                 *)

EmptyMap == << >>

contains_key(m, k) == k \in DOMAIN m

\* HashMap::get
get(m, k) == IF k \in DOMAIN m THEN Some(m[k]) ELSE None

\* HashMap::insert: a later insert under the same key replaces the value.
insert(m, k, v) == [x \in (DOMAIN m) \cup {k} |-> IF x = k THEN v ELSE m[x]]

\* All orders in which a set can be listed.
Perms(S) ==
    {p \in [1..Cardinality(S) -> S] : \A i, j \in 1..Cardinality(S) : p[i] = p[j] => i = j}


---------------------------------------------------------------------------
(* Documents (types.rs)                                                    *)

\* CatalogEntry {scheme, number, edition}; `since` is read by neither the
\* index builder nor the query engine.
CatalogEntry(scheme, number, edition) ==
    [scheme |-> scheme, number |-> number, edition |-> edition]

\* AttributionEntry {composer, cf, catalog}: the fields build_index reads.
AttributionEntry(composer, cf, catalog) ==
    [composer |-> composer, cf |-> cf, catalog |-> catalog]

\* Composition {id, attribution}.
Composition(id, attribution) == [id |-> id, attribution |-> attribution]

\* A file for which load_composition returns Err (unreadable or invalid JSON).
Unparseable == [id |-> "", attribution |-> << >>, invalid |-> TRUE]

IsParseable(doc) == "invalid" \notin DOMAIN doc

---------------------------------------------------------------------------
(* Index (index.rs)                                                        *)

\* SchemeIndex::default()
SchemeIndexDefault == [current |-> EmptyMap, superseded |-> EmptyMap]

\* Index::default()
IndexDefault == [by_composer |-> EmptyMap, catalog |-> EmptyMap, editions |-> EmptyMap]

EditionEntry(composer, scheme, edition, number, id) ==
    [composer |-> composer, scheme |-> scheme, edition |-> edition,
     number |-> number, id |-> id]

\* format!("{}-{}", composer, scheme)
EditionKey(composer, scheme) == composer \o <<"-">> \o scheme

\* collection.attribution.first()?.composer.clone() for a collection file that
\* loads; None when the file is missing or invalid.
resolve_composer(attr, colls) ==
    IF IsSome(attr.composer) THEN attr.composer
    ELSE IF IsSome(attr.cf) /\ Unwrap(attr.cf) \in DOMAIN colls
         THEN LET attribution == colls[Unwrap(attr.cf)]
              IN  IF attribution = << >> THEN None ELSE attribution[1].composer
         ELSE None

\* index.catalog.entry(composer).or_default().entry(scheme).or_default()
SchemeIndexOf(idx, composer, scheme) ==
    IF composer \in DOMAIN idx.catalog /\ scheme \in DOMAIN idx.catalog[composer]
    THEN idx.catalog[composer][scheme]
    ELSE SchemeIndexDefault

WithSchemeIndex(idx, composer, scheme, si) ==
    LET schemes == IF composer \in DOMAIN idx.catalog THEN idx.catalog[composer]
                   ELSE EmptyMap
    IN  [idx EXCEPT !.catalog = insert(idx.catalog, composer, insert(schemes, scheme, si))]

\* A variant of add_catalog_entry that records every later entry as
\* superseded, whether or not its number is a key of `current`.
add_catalog_entry_unguarded(idx, composer, cat, id, is_current) ==
    LET scheme_index == SchemeIndexOf(idx, composer, cat.scheme)
        after ==
            IF is_current
            THEN [scheme_index EXCEPT !.current = insert(scheme_index.current, cat.number, id)]
            ELSE [scheme_index EXCEPT
                     !.superseded = insert(scheme_index.superseded, cat.number, id)]
    IN  WithSchemeIndex(idx, composer, cat.scheme, after)

add_catalog_entry(idx, composer, cat, id, is_current) ==
    LET scheme_index == SchemeIndexOf(idx, composer, cat.scheme)
        after ==
            IF is_current
            THEN [scheme_index EXCEPT !.current = insert(scheme_index.current, cat.number, id)]
            ELSE IF ~contains_key(scheme_index.current, cat.number)
                 THEN [scheme_index EXCEPT
                          !.superseded = insert(scheme_index.superseded, cat.number, id)]
                 ELSE scheme_index
    IN  WithSchemeIndex(idx, composer, cat.scheme, after)

\* The state of build_index inside one document: the index, the buffered
\* edition entries, and the two per-document locals.
ScanState(idx, eds) ==
    [index |-> idx, edition_entries |-> eds,
     composers_seen |-> {}, scheme_first_seen |-> {}]

\* Lines 96-112: one catalog entry of an attribution entry.
ScanCatalogEntry(st, composer, cat, id) ==
    LET key        == <<composer, cat.scheme>>
        is_current == key \notin st.scheme_first_seen
    IN  [st EXCEPT
            !.scheme_first_seen = st.scheme_first_seen \cup {key},
            !.index = add_catalog_entry(st.index, composer, cat, id, is_current),
            !.edition_entries =
                IF IsSome(cat.edition)
                THEN Append(st.edition_entries,
                            EditionEntry(composer, cat.scheme, Unwrap(cat.edition),
                                         cat.number, id))
                ELSE st.edition_entries]

RECURSIVE ScanCatalog(_, _, _, _)
ScanCatalog(st, composer, catalog, id) ==
    IF catalog = << >> THEN st
    ELSE ScanCatalog(ScanCatalogEntry(st, composer, Head(catalog), id),
                     composer, Tail(catalog), id)

\* A variant of ScanAttributionEntry that registers the composition under
\* the composer for every attribution entry, seen before or not.
ScanAttributionEntryRepeating(st, attr, id, colls) ==
    LET resolved == resolve_composer(attr, colls)
    IN  IF ~IsSome(resolved) THEN st
        ELSE
          LET composer == Unwrap(resolved)
              ids      == IF composer \in DOMAIN st.index.by_composer
                          THEN st.index.by_composer[composer] ELSE << >>
              st1      ==
                  [st EXCEPT
                      !.composers_seen = st.composers_seen \cup {composer},
                      !.index.by_composer =
                          insert(st.index.by_composer, composer, Append(ids, id))]
          IN  IF IsSome(attr.catalog)
              THEN ScanCatalog(st1, composer, Unwrap(attr.catalog), id)
              ELSE st1

\* Lines 86-114: one attribution entry.
ScanAttributionEntry(st, attr, id, colls) ==
    LET resolved == resolve_composer(attr, colls)
    IN  IF ~IsSome(resolved) THEN st
        ELSE
          LET composer == Unwrap(resolved)
              ids      == IF composer \in DOMAIN st.index.by_composer
                          THEN st.index.by_composer[composer] ELSE << >>
              st1      ==
                  IF composer \notin st.composers_seen
                  THEN [st EXCEPT
                          !.composers_seen = st.composers_seen \cup {composer},
                          !.index.by_composer =
                              insert(st.index.by_composer, composer, Append(ids, id))]
                  ELSE st
          IN  IF IsSome(attr.catalog)
              THEN ScanCatalog(st1, composer, Unwrap(attr.catalog), id)
              ELSE st1

RECURSIVE ScanAttribution(_, _, _, _)
ScanAttribution(st, attribution, id, colls) ==
    IF attribution = << >> THEN st
    ELSE ScanAttribution(ScanAttributionEntry(st, Head(attribution), id, colls),
                         Tail(attribution), id, colls)

\* A variant of ScanDocument in which a file that fails to load discards
\* what the scan has indexed so far.
ScanDocumentAborting(idx, eds, doc, colls) ==
    IF IsParseable(doc)
    THEN ScanAttribution(ScanState(idx, eds), doc.attribution, doc.id, colls)
    ELSE ScanState(IndexDefault, << >>)

\* Lines 81-116: the body of the scan loop for one file.
ScanDocument(idx, eds, doc, colls) ==
    IF IsParseable(doc)
    THEN ScanAttribution(ScanState(idx, eds), doc.attribution, doc.id, colls)
    ELSE ScanState(idx, eds)


---------------------------------------------------------------------------
(* build_cumulative_editions (index.rs)                                    *)

SchemePairs(entries) == {<<e.composer, e.scheme>> : e \in Range(entries)}

\* by_scheme[(composer, scheme)], in the order the entries were buffered.
SchemeEntries(entries, pair) ==
    SelectSeq(entries, LAMBDA e : e.composer = pair[1] /\ e.scheme = pair[2])

\* by_id[id]
IdEntries(scheme_entries, id) == SelectSeq(scheme_entries, LAMBDA e : e.id = id)

\* Iterator::max_by_key returns the last of several maximal elements.
MaxByEdition(s) ==
    IF s = << >> THEN None
    ELSE LET k(i) == ParseI32OrZero(s[i].edition)
             best == CHOOSE i \in 1..Len(s) :
                        \A j \in 1..Len(s) :
                            /\ k(j) <= k(i)
                            /\ (j > i => k(j) < k(i))
         IN  Some(s[best])

\* A variant of BestEntry that takes only the entries of the edition itself.
BestEntryAtEdition(id_entries, edition_num) ==
    MaxByEdition(SelectSeq(id_entries,
                           LAMBDA e : ParseI32OrZero(e.edition) = edition_num))

\* A variant of BestEntry that takes the newest entry, later editions included.
BestEntryNewest(id_entries, edition_num) == MaxByEdition(id_entries)

\* Lines 157-160: the entry of one composition that is in force at an edition.
BestEntry(id_entries, edition_num) ==
    MaxByEdition(SelectSeq(id_entries,
                           LAMBDA e : ParseI32OrZero(e.edition) <= edition_num))

\* Lines 154-165: the map of one edition; ids lists by_id in iteration order.
RECURSIVE EditionMap(_, _, _, _)
EditionMap(scheme_entries, ids, edition_num, acc) ==
    IF ids = << >> THEN acc
    ELSE LET best == BestEntry(IdEntries(scheme_entries, Head(ids)), edition_num)
             next == IF IsSome(best)
                     THEN insert(acc, Unwrap(best).number, Head(ids))
                     ELSE acc
         IN  EditionMap(scheme_entries, Tail(ids), edition_num, next)

\* Lines 134-173 for one (composer, scheme): a map for every distinct label.
SchemeEditions(idx, entries, pair, id_order) ==
    LET ses    == SchemeEntries(entries, pair)
        labels == {e.edition : e \in Range(ses)}
        ids    == SelectSeq(id_order, LAMBDA i : \E e \in Range(ses) : e.id = i)
        key    == EditionKey(pair[1], pair[2])
        old    == IF key \in DOMAIN idx.editions THEN idx.editions[key] ELSE EmptyMap
        new    == [l \in (DOMAIN old) \cup labels |->
                      IF l \in labels
                      THEN EditionMap(ses, ids, ParseI32OrZero(l), EmptyMap)
                      ELSE old[l]]
    IN  [idx EXCEPT !.editions = insert(idx.editions, key, new)]

\* pairs lists by_scheme in iteration order; id_order[pair] lists the
\* composition ids in the iteration order of that pair's by_id.
RECURSIVE build_cumulative_editions(_, _, _, _)
build_cumulative_editions(idx, entries, pairs, id_order) ==
    IF pairs = << >> THEN idx
    ELSE build_cumulative_editions(
             SchemeEditions(idx, entries, Head(pairs), id_order[Head(pairs)]),
             entries, Tail(pairs), id_order)

---------------------------------------------------------------------------
(* Catalog definitions and the sort-key algebra (catalog.rs)               *)

\* SortKey {group, type}
SortKey(group, sort_type) == [group |-> group, sort_type |-> sort_type]

\* CatalogDefinition: the fields the algebra and load_catalog_def read.
CatalogDefinition(pattern, sort_keys, group_by, canonical_format) ==
    [pattern |-> pattern, sort_keys |-> sort_keys, group_by |-> group_by,
     canonical_format |-> canonical_format]

\* The patterns of the model.  PatOpus and PatNumeric are those of the unit
\* tests of catalog.rs; PatInvalid does not compile.
PatOpus == "^(\\d+)(?:/(\\d+))?([a-z])?$"

PatNumeric == "^(\\d+)$"

PatInvalid == "("

\* RegexBuilder::new(pattern).case_insensitive(true).build() is Ok.
RegexCompiles(pattern) == pattern \in {PatOpus, PatNumeric}

IsLetter(c) == IsLower(c) \/ IsUpper(c)

\* The ways s matches PatOpus case-insensitively: m[1] digits, then "/" and
\* m[2] digits when m[2] > 0, then a letter when m[3] = 1.  At most one way.
OpusSplits(s) ==
    {m \in (1..Len(s)) \X (0..Len(s)) \X (0..1) :
        /\ m[1] + (IF m[2] > 0 THEN m[2] + 1 ELSE 0) + m[3] = Len(s)
        /\ \A i \in 1..m[1] : IsDigit(s[i])
        /\ m[2] > 0 => /\ s[m[1] + 1] = "/"
                       /\ \A i \in (m[1] + 2)..(m[1] + 1 + m[2]) : IsDigit(s[i])
        /\ m[3] = 1 => IsLetter(s[Len(s)])}

\* The capture groups 1..3 of the match m; a group that took no part is None.
OpusGroups(s, m) ==
    <<Some(SubSeq(s, 1, m[1])),
      IF m[2] > 0 THEN Some(SubSeq(s, m[1] + 2, m[1] + 1 + m[2])) ELSE None,
      IF m[3] = 1 THEN Some(<<s[Len(s)]>>) ELSE None>>

\* Regex::captures for PatOpus.
OpusCaptures(s) ==
    IF OpusSplits(s) = {} THEN None
    ELSE Some(OpusGroups(s, CHOOSE m \in OpusSplits(s) : TRUE))

\* Regex::captures for PatNumeric.
NumericCaptures(s) == IF AllDigits(s) THEN Some(<<Some(s)>>) ELSE None

RegexCaptures(pattern, s) ==
    IF pattern = PatOpus THEN OpusCaptures(s) ELSE NumericCaptures(s)

\* caps.get(i) for i in 1..=max_group; a group the pattern lacks is None.
CaptureGroups(caps, max_group) ==
    IF ~IsSome(caps) THEN None
    ELSE Some([i \in 1..max_group |->
                  IF i <= Len(Unwrap(caps)) THEN Unwrap(caps)[i] ELSE None])

parse_number_with_regex(number, re, max_group) ==
    CaptureGroups(RegexCaptures(re, number), max_group)

\* enum SortValue
SortInt(v) == [tag |-> "Int", int |-> v]

SortStr(t) == [tag |-> "Str", str |-> t]

NoneFirst == [tag |-> "NoneFirst"]

NoneLast == [tag |-> "NoneLast"]

Less == 0 - 1

Equal == 0

Greater == 1

IntCmp(a, b) == IF a < b THEN Less ELSE IF a = b THEN Equal ELSE Greater

StrCmp(a, b) == IF a = b THEN Equal ELSE IF StrLess(a, b) THEN Less ELSE Greater

\* A variant of SortValueCmp that puts every Str below every Int.
SortValueCmpStrFirst(a, b) ==
    IF a.tag = "NoneFirst" /\ b.tag = "NoneFirst" THEN Equal
    ELSE IF a.tag = "NoneFirst" THEN Less
    ELSE IF b.tag = "NoneFirst" THEN Greater
    ELSE IF a.tag = "NoneLast" /\ b.tag = "NoneLast" THEN Equal
    ELSE IF a.tag = "NoneLast" THEN Greater
    ELSE IF b.tag = "NoneLast" THEN Less
    ELSE IF a.tag = "Int" /\ b.tag = "Int" THEN IntCmp(a.int, b.int)
    ELSE IF a.tag = "Str" /\ b.tag = "Str" THEN StrCmp(a.str, b.str)
    ELSE IF a.tag = "Int" THEN Greater
    ELSE Less

\* impl Ord for SortValue: the arms of the match, in order.
SortValueCmp(a, b) ==
    IF a.tag = "NoneFirst" /\ b.tag = "NoneFirst" THEN Equal
    ELSE IF a.tag = "NoneFirst" THEN Less
    ELSE IF b.tag = "NoneFirst" THEN Greater
    ELSE IF a.tag = "NoneLast" /\ b.tag = "NoneLast" THEN Equal
    ELSE IF a.tag = "NoneLast" THEN Greater
    ELSE IF b.tag = "NoneLast" THEN Less
    ELSE IF a.tag = "Int" /\ b.tag = "Int" THEN IntCmp(a.int, b.int)
    ELSE IF a.tag = "Str" /\ b.tag = "Str" THEN StrCmp(a.str, b.str)
    ELSE IF a.tag = "Int" THEN Less
    ELSE Greater

\* Ord for Vec<SortValue>: lexicographic; a proper prefix is smaller.
RECURSIVE KeyCmp(_, _)
KeyCmp(a, b) ==
    IF a = << >> /\ b = << >> THEN Equal
    ELSE IF a = << >> THEN Less
    ELSE IF b = << >> THEN Greater
    ELSE IF SortValueCmp(Head(a), Head(b)) # Equal THEN SortValueCmp(Head(a), Head(b))
    ELSE KeyCmp(Tail(a), Tail(b))

RomanValue(c) ==
    CASE c = "I" -> 1 [] c = "V" -> 5 [] c = "X" -> 10 [] c = "L" -> 50
      [] c = "C" -> 100 [] c = "D" -> 500 [] c = "M" -> 1000 [] OTHER -> 0

\* A variant of RomanFold that adds every symbol.
RECURSIVE RomanFoldAdditive(_, _)
RomanFoldAdditive(s, i) ==
    IF i > Len(s) THEN [total |-> 0, prev |-> 0]
    ELSE [total |-> RomanFoldAdditive(s, i + 1).total + RomanValue(s[i]),
          prev  |-> RomanValue(s[i])]

\* The loop of parse_roman over s.chars().rev(): [total, prev] after the
\* characters from position i to the end.
RECURSIVE RomanFold(_, _)
RomanFold(s, i) ==
    IF i > Len(s) THEN [total |-> 0, prev |-> 0]
    ELSE LET r   == RomanFold(s, i + 1)
             val == RomanValue(s[i])
         IN  [total |-> IF val < r.prev THEN r.total - val ELSE r.total + val,
              prev  |-> val]

parse_roman(t) ==
    LET s == to_uppercase(t)
    IN  IF \E i \in 1..Len(s) : s[i] \notin {"I", "V", "X", "L", "C", "D", "M"}
        THEN 0
        ELSE RomanFold(s, 1).total

SentinelInt == 999999999

\* vec![SortValue::Int(999999999), SortValue::Str(number.to_string())]
SentinelKey(number) == <<SortInt(SentinelInt), SortStr(number)>>

\* Lines 146-160: the key value pushed for the captured text raw.
CaptureValue(raw, sort_type) ==
    IF ~IsSome(raw) THEN NoneFirst
    ELSE IF Unwrap(raw) = << >> THEN NoneFirst
    ELSE IF sort_type = "int" THEN SortInt(ParseI64OrZero(Unwrap(raw)))
    ELSE IF sort_type = "roman" THEN SortInt(parse_roman(Unwrap(raw)))
    ELSE SortStr(Unwrap(raw))

\* Lines 141-161: the key value of one declared sort key; captures.get(idx)
\* with idx = sk.group - 1 counted from 0.
SortKeyValue(captures, sk) ==
    CaptureValue(IF sk.group >= 1 /\ sk.group <= Len(captures)
                 THEN captures[sk.group] ELSE None,
                 sk.sort_type)

\* Lines 124-164, after the captures are taken.
KeyFromCaptures(number, defn, captures) ==
    IF ~IsSome(captures) THEN SentinelKey(number)
    ELSE IF ~IsSome(defn.sort_keys) THEN <<SortStr(number)>>
    ELSE [i \in 1..Len(Unwrap(defn.sort_keys)) |->
             SortKeyValue(Unwrap(captures), Unwrap(defn.sort_keys)[i])]

sort_key_with_regex(number, re, defn, max_group) ==
    KeyFromCaptures(number, defn, parse_number_with_regex(number, re, max_group))

MaxOf(groups) == CHOOSE g \in groups : \A h \in groups : h <= g

\* sks.iter().map(|sk| sk.group).max().unwrap_or(0), or 0 without sort_keys.
MaxGroup(defn) ==
    IF ~IsSome(defn.sort_keys) \/ Unwrap(defn.sort_keys) = << >> THEN 0
    ELSE MaxOf({sk.group : sk \in Range(Unwrap(defn.sort_keys))})

sort_key(number, defn) ==
    IF ~IsSome(defn.pattern) THEN <<SortStr(number)>>
    ELSE IF ~RegexCompiles(Unwrap(defn.pattern)) THEN SentinelKey(number)
    ELSE sort_key_with_regex(number, Unwrap(defn.pattern), defn, MaxGroup(defn))

\* The comparison sort_numbers sorts by: the key order when the definition has
\* a pattern that compiles, the order of str otherwise.
NumberCmp(a, b, defn) ==
    IF IsSome(defn) /\ IsSome(Unwrap(defn).pattern)
       /\ RegexCompiles(Unwrap(Unwrap(defn).pattern))
    THEN LET d  == Unwrap(defn)
             re == Unwrap(d.pattern)
         IN  KeyCmp(sort_key_with_regex(a, re, d, MaxGroup(d)),
                    sort_key_with_regex(b, re, d, MaxGroup(d)))
    ELSE StrCmp(a, b)

\* A variant of InsertSorted that puts x before the elements equal to it.
RECURSIVE InsertSortedUnstable(_, _, _)
InsertSortedUnstable(sorted, x, defn) ==
    IF sorted = << >> THEN <<x>>
    ELSE IF NumberCmp(sorted[Len(sorted)], x, defn) = Less THEN Append(sorted, x)
    ELSE Append(InsertSortedUnstable(SubSeq(sorted, 1, Len(sorted) - 1), x, defn),
                sorted[Len(sorted)])

\* Stable insertion of x: after every element that is not greater than it.
RECURSIVE InsertSorted(_, _, _)
InsertSorted(sorted, x, defn) ==
    IF sorted = << >> THEN <<x>>
    ELSE IF NumberCmp(sorted[Len(sorted)], x, defn) # Greater THEN Append(sorted, x)
    ELSE Append(InsertSorted(SubSeq(sorted, 1, Len(sorted) - 1), x, defn),
                sorted[Len(sorted)])

\* slice::sort / slice::sort_by: a stable sort.
RECURSIVE sort_numbers(_, _)
sort_numbers(numbers, defn) ==
    IF numbers = << >> THEN << >>
    ELSE InsertSorted(sort_numbers(SubSeq(numbers, 1, Len(numbers) - 1), defn),
                      numbers[Len(numbers)], defn)

\* Lines 259-274: the capture groups group membership compares.
GroupsToCompare(defn) ==
    IF IsSome(defn.group_by) THEN Unwrap(defn.group_by)
    ELSE IF ~IsSome(defn.sort_keys) THEN << >>
    ELSE LET groups == [i \in 1..Len(Unwrap(defn.sort_keys)) |->
                           Unwrap(defn.sort_keys)[i].group]
         IN  IF Len(groups) > 1 THEN SubSeq(groups, 1, Len(groups) - 1) ELSE groups

\* Lines 276-294: the comparison of the captures of number and group.
CapturesMatch(number, group, num_captures, grp_captures, to_compare, max_group) ==
    IF ~IsSome(num_captures) THEN FALSE
    ELSE IF ~IsSome(grp_captures) THEN starts_with(number, group)
    ELSE \A i \in 1..Len(to_compare) :
            \/ to_compare[i] = 0
            \/ to_compare[i] > max_group
            \/ Unwrap(num_captures)[to_compare[i]] = Unwrap(grp_captures)[to_compare[i]]

DefinitionMatch(number, group, d) ==
    CapturesMatch(number, group,
                  parse_number_with_regex(number, Unwrap(d.pattern), MaxGroup(d)),
                  parse_number_with_regex(group, Unwrap(d.pattern), MaxGroup(d)),
                  GroupsToCompare(d), MaxGroup(d))

matches_group(number, group, defn) ==
    IF ~IsSome(defn) THEN starts_with(number, group)
    ELSE IF ~IsSome(Unwrap(defn).pattern) THEN starts_with(number, group)
    ELSE IF ~RegexCompiles(Unwrap(Unwrap(defn).pattern)) THEN starts_with(number, group)
    ELSE DefinitionMatch(number, group, Unwrap(defn))

normalize_catalog_number(number) == to_lowercase(number)

\* The definitions on disk: composers/<composer>.json catalogs by
\* (composer, scheme), and catalogs/<scheme>.json by scheme.
load_catalog_def(defs, scheme, composer) ==
    LET composer_def == get(defs.composer, <<composer, scheme>>)
        global_def   == get(defs.global, scheme)
    IN  IF IsSome(composer_def) /\ IsSome(global_def)
        THEN LET c == Unwrap(composer_def)
                 g == Unwrap(global_def)
             IN  Some([c EXCEPT
                         !.pattern = IF IsSome(c.pattern) THEN c.pattern ELSE g.pattern,
                         !.sort_keys = IF IsSome(c.sort_keys) THEN c.sort_keys
                                       ELSE g.sort_keys,
                         !.canonical_format = IF IsSome(c.canonical_format)
                                              THEN c.canonical_format
                                              ELSE g.canonical_format])
        ELSE IF IsSome(composer_def) THEN composer_def
        ELSE global_def

---------------------------------------------------------------------------
(* The query engine (query.rs)                                             *)

DataDir == "data_dir"

\* Query::default()
QueryDefault ==
    [composer |-> None, scheme |-> None, edition |-> None, number |-> None,
     group |-> None, range_start |-> None, range_end |-> None,
     sorted |-> FALSE, strict |-> FALSE, data_dir |-> None]

QueryBuilder_composer(q, c) == [q EXCEPT !.composer = Some(c)]

QueryBuilder_scheme(q, s) == [q EXCEPT !.scheme = Some(s)]

QueryBuilder_edition(q, e) == [q EXCEPT !.edition = Some(e)]

QueryBuilder_number(q, n) == [q EXCEPT !.number = Some(n)]

QueryBuilder_group(q, g) == [q EXCEPT !.group = Some(g)]

QueryBuilder_range(q, start, end) ==
    [q EXCEPT !.range_start = Some(start), !.range_end = Some(end)]

QueryBuilder_sorted(q) == [q EXCEPT !.sorted = TRUE, !.data_dir = Some(DataDir)]

QueryBuilder_strict(q, b) == [q EXCEPT !.strict = b]

QueryBuilder_data_dir(q) == [q EXCEPT !.data_dir = Some(DataDir)]

QueryResult(id, number, superseded, current_number) ==
    [id |-> id, number |-> number, superseded |-> superseded,
     current_number |-> current_number]

\* self.index.catalog.get(composer)?.get(scheme)
SchemeIndexGet(idx, composer, scheme) ==
    IF composer \in DOMAIN idx.catalog /\ scheme \in DOMAIN idx.catalog[composer]
    THEN Some(idx.catalog[composer][scheme])
    ELSE None

\* self.index.editions.get(&key)?.get(edition)
EditionMapGet(idx, composer, scheme, edition) ==
    LET key == EditionKey(composer, scheme)
    IN  IF key \in DOMAIN idx.editions /\ edition \in DOMAIN idx.editions[key]
        THEN Some(idx.editions[key][edition])
        ELSE None

\* A variant of FindCurrentNumber that reports the first key of `current`,
\* whatever composition it belongs to.
FindCurrentNumberFirstKey(current, order, id) ==
    IF order = << >> THEN None ELSE Some(order[1])

\* current.iter().find(|(_, v)| *v == id).map(|(k, _)| k.clone()); order lists
\* the keys of current in iteration order.
FindCurrentNumber(current, order, id) ==
    LET hits == SelectSeq(order, LAMBDA k : current[k] = id)
    IN  IF hits = << >> THEN None ELSE Some(hits[1])

\* A variant of fetch_one that reads `superseded` in strict mode too.
fetch_one_ignoring_strict(idx, q) ==
    IF ~IsSome(q.composer) \/ ~IsSome(q.scheme) \/ ~IsSome(q.number) THEN None
    ELSE IF IsSome(q.edition)
    THEN IF IsSome(EditionMapGet(idx, Unwrap(q.composer), Unwrap(q.scheme),
                                 Unwrap(q.edition)))
         THEN get(Unwrap(EditionMapGet(idx, Unwrap(q.composer), Unwrap(q.scheme),
                                       Unwrap(q.edition))),
                  Unwrap(q.number))
         ELSE None
    ELSE IF ~IsSome(SchemeIndexGet(idx, Unwrap(q.composer), Unwrap(q.scheme))) THEN None
    ELSE IF contains_key(SchemeIndexOf(idx, Unwrap(q.composer), Unwrap(q.scheme)).current,
                         Unwrap(q.number))
    THEN Some(SchemeIndexOf(idx, Unwrap(q.composer), Unwrap(q.scheme)).current[
                  Unwrap(q.number)])
    ELSE get(SchemeIndexOf(idx, Unwrap(q.composer), Unwrap(q.scheme)).superseded,
             Unwrap(q.number))

fetch_one(idx, q) ==
    IF ~IsSome(q.composer) \/ ~IsSome(q.scheme) \/ ~IsSome(q.number) THEN None
    ELSE
      LET composer == Unwrap(q.composer)
          scheme   == Unwrap(q.scheme)
          number   == Unwrap(q.number)
      IN  IF IsSome(q.edition)
          THEN LET m == EditionMapGet(idx, composer, scheme, Unwrap(q.edition))
               IN  IF IsSome(m) THEN get(Unwrap(m), number) ELSE None
          ELSE LET si == SchemeIndexGet(idx, composer, scheme)
               IN  IF ~IsSome(si) THEN None
                   ELSE IF contains_key(Unwrap(si).current, number)
                        THEN Some(Unwrap(si).current[number])
                   ELSE IF ~q.strict /\ contains_key(Unwrap(si).superseded, number)
                        THEN Some(Unwrap(si).superseded[number])
                   ELSE None

\* iter.current lists the keys of the scheme's `current` in iteration order.
fetch_one_with_info(idx, q, iter) ==
    IF ~IsSome(q.composer) \/ ~IsSome(q.scheme) \/ ~IsSome(q.number) THEN None
    ELSE
      LET composer == Unwrap(q.composer)
          scheme   == Unwrap(q.scheme)
          number   == Unwrap(q.number)
      IN  IF IsSome(q.edition)
          THEN LET m == EditionMapGet(idx, composer, scheme, Unwrap(q.edition))
               IN  IF IsSome(m) /\ contains_key(Unwrap(m), number)
                   THEN Some(QueryResult(Unwrap(m)[number], Some(number), FALSE, None))
                   ELSE None
          ELSE LET si == SchemeIndexGet(idx, composer, scheme)
               IN  IF ~IsSome(si) THEN None
                   ELSE IF contains_key(Unwrap(si).current, number)
                        THEN Some(QueryResult(Unwrap(si).current[number], Some(number),
                                              FALSE, None))
                   ELSE IF ~q.strict /\ contains_key(Unwrap(si).superseded, number)
                        THEN LET id == Unwrap(si).superseded[number]
                             IN  Some(QueryResult(id, Some(number), TRUE,
                                        FindCurrentNumber(Unwrap(si).current,
                                                          iter.current, id)))
                   ELSE None

fetch_by_composer(idx, composer) ==
    IF composer \in DOMAIN idx.by_composer
    THEN [i \in 1..Len(idx.by_composer[composer]) |->
             QueryResult(idx.by_composer[composer][i], None, FALSE, None)]
    ELSE << >>

\* A variant of CeilingFrom that rewrites the last position only.
CeilingLastOnly(res, i) ==
    IF i = 0 THEN res
    ELSE IF res[i] = NoneFirst THEN [res EXCEPT ![i] = NoneLast]
    ELSE res

\* The loop of make_inclusive_ceiling, from index i down to the first.
RECURSIVE CeilingFrom(_, _)
CeilingFrom(res, i) ==
    IF i = 0 THEN res
    ELSE IF res[i] = NoneFirst THEN CeilingFrom([res EXCEPT ![i] = NoneLast], i - 1)
    ELSE res

make_inclusive_ceiling(key) == CeilingFrom(key, Len(key))

\* Lines 224-249: the (number, id, superseded) triples the listing starts from.
SchemeNumbers(idx, q, composer, scheme, iter) ==
    IF IsSome(q.edition)
    THEN LET m == EditionMapGet(idx, composer, scheme, Unwrap(q.edition))
         IN  IF IsSome(m)
             THEN Some([i \in 1..Len(iter.edition) |->
                           <<iter.edition[i], Unwrap(m)[iter.edition[i]], FALSE>>])
             ELSE None
    ELSE LET si == SchemeIndexGet(idx, composer, scheme)
             is_range_or_group == IsSome(q.range_start) \/ IsSome(q.group)
         IN  IF IsSome(si)
             THEN Some([i \in 1..Len(iter.current) |->
                           <<iter.current[i], Unwrap(si).current[iter.current[i]], FALSE>>]
                       \o (IF ~is_range_or_group /\ ~q.strict
                           THEN [i \in 1..Len(iter.superseded) |->
                                   <<iter.superseded[i],
                                     Unwrap(si).superseded[iter.superseded[i]], TRUE>>]
                           ELSE << >>))
             ELSE None

\* Lines 251-255: the definition is loaded only when a data_dir is set.
QueryDefinition(defs, q, composer, scheme) ==
    IF IsSome(q.data_dir) THEN load_catalog_def(defs, scheme, composer) ELSE None

\* Lines 257-261: sorting happens for sorted, group and range queries.
SortedKeys(q, keys, defn) ==
    IF q.sorted \/ IsSome(q.group) \/ IsSome(q.range_start)
    THEN sort_numbers(keys, defn) ELSE keys

\* Lines 263-267: the group filter, applied only when a definition is loaded.
GroupFilter(q, keys, defn) ==
    IF IsSome(q.group) /\ IsSome(defn)
    THEN SelectSeq(keys, LAMBDA k : matches_group(k, Unwrap(q.group), defn))
    ELSE keys

InKeyRange(k, start_key, end_key, d) ==
    /\ KeyCmp(sort_key(k, d), start_key) # Less
    /\ KeyCmp(sort_key(k, d), end_key) # Greater

\* A variant of RangeFilter that compares with the key of the end itself.
RangeFilterWithoutCeiling(q, keys, defn) ==
    IF IsSome(q.range_start) /\ IsSome(q.range_end)
    THEN IF IsSome(defn)
         THEN SelectSeq(keys, LAMBDA k :
                  InKeyRange(k, sort_key(Unwrap(q.range_start), Unwrap(defn)),
                             sort_key(Unwrap(q.range_end), Unwrap(defn)),
                             Unwrap(defn)))
         ELSE SelectSeq(keys, LAMBDA k :
                  /\ StrLeq(Unwrap(q.range_start), k)
                  /\ StrLeq(k, Unwrap(q.range_end)))
    ELSE keys

\* Lines 269-281: the range filter, inclusive at both ends.
RangeFilter(q, keys, defn) ==
    IF IsSome(q.range_start) /\ IsSome(q.range_end)
    THEN IF IsSome(defn)
         THEN SelectSeq(keys, LAMBDA k :
                  InKeyRange(k, sort_key(Unwrap(q.range_start), Unwrap(defn)),
                             make_inclusive_ceiling(
                                 sort_key(Unwrap(q.range_end), Unwrap(defn))),
                             Unwrap(defn)))
         ELSE SelectSeq(keys, LAMBDA k :
                  /\ StrLeq(Unwrap(q.range_start), k)
                  /\ StrLeq(k, Unwrap(q.range_end)))
    ELSE keys

FilterKeys(q, keys, defn) ==
    RangeFilter(q, GroupFilter(q, SortedKeys(q, keys, defn), defn), defn)

\* Lines 251-281: the keys, sorted and filtered.
SchemeKeys(defs, q, composer, scheme, numbers) ==
    FilterKeys(q, [i \in 1..Len(numbers) |-> numbers[i][1]],
               QueryDefinition(defs, q, composer, scheme))

\* Lines 283-308: one QueryResult per key, from the first triple of that number.
SchemeResult(idx, composer, scheme, numbers, iter, k) ==
    LET entry == numbers[CHOOSE i \in 1..Len(numbers) :
                            /\ numbers[i][1] = k
                            /\ \A j \in 1..(i - 1) : numbers[j][1] # k]
        si    == SchemeIndexGet(idx, composer, scheme)
    IN  QueryResult(entry[2], Some(k), entry[3],
                    IF entry[3] /\ IsSome(si)
                    THEN FindCurrentNumber(Unwrap(si).current, iter.current, entry[2])
                    ELSE None)

\* Lines 283-308: the results, in the order of the keys.
SchemeResults(idx, composer, scheme, numbers, iter, keys) ==
    [i \in 1..Len(keys) |-> SchemeResult(idx, composer, scheme, numbers, iter, keys[i])]

ListScheme(idx, defs, q, composer, scheme, iter, numbers) ==
    IF ~IsSome(numbers) THEN << >>
    ELSE SchemeResults(idx, composer, scheme, Unwrap(numbers), iter,
                       SchemeKeys(defs, q, composer, scheme, Unwrap(numbers)))

fetch_by_scheme(idx, defs, q, composer, scheme, iter) ==
    ListScheme(idx, defs, q, composer, scheme, iter,
               SchemeNumbers(idx, q, composer, scheme, iter))

\* Lines 132-134: the number becomes the group.
NumberAsGroup(q) == [q EXCEPT !.number = None, !.group = q.number]

\* Lines 128-136: the match of the number, or else the number as a group.
NumberOrGroup(found, idx, defs, q, iter) ==
    IF IsSome(found) THEN <<Unwrap(found)>>
    ELSE fetch_by_scheme(idx, defs, NumberAsGroup(q),
                         Unwrap(q.composer), Unwrap(q.scheme), iter)

fetch(idx, defs, q, iter) ==
    IF IsSome(q.composer) /\ IsSome(q.scheme) /\ IsSome(q.number)
    THEN NumberOrGroup(fetch_one_with_info(idx, q, iter), idx, defs, q, iter)
    ELSE IF IsSome(q.composer) /\ IsSome(q.scheme)
    THEN fetch_by_scheme(idx, defs, q, Unwrap(q.composer), Unwrap(q.scheme), iter)
    ELSE IF IsSome(q.composer) /\ ~IsSome(q.number)
    THEN fetch_by_composer(idx, Unwrap(q.composer))
    ELSE << >>

count(idx, defs, q, iter) == Len(fetch(idx, defs, q, iter))

exists(idx, q) == IsSome(fetch_one(idx, q))

\* The orders in which the HashMaps a query reads can be iterated.
IterOrders(idx, q) ==
    LET si == IF IsSome(q.composer) /\ IsSome(q.scheme)
              THEN SchemeIndexGet(idx, Unwrap(q.composer), Unwrap(q.scheme)) ELSE None
        em == IF IsSome(q.composer) /\ IsSome(q.scheme) /\ IsSome(q.edition)
              THEN EditionMapGet(idx, Unwrap(q.composer), Unwrap(q.scheme),
                                 Unwrap(q.edition))
              ELSE None
        cur == IF IsSome(si) THEN DOMAIN Unwrap(si).current ELSE {}
        sup == IF IsSome(si) THEN DOMAIN Unwrap(si).superseded ELSE {}
        eds == IF IsSome(em) THEN DOMAIN Unwrap(em) ELSE {}
    IN  {[current |-> c, superseded |-> s, edition |-> e] :
            c \in Perms(cur), s \in Perms(sup), e \in Perms(eds)}

---------------------------------------------------------------------------
(* The document trees the model starts from.                               *)

Mozart == <<"m", "o", "z", "a", "r", "t">>

Bach == <<"b", "a", "c", "h">>

SchemeK == <<"k">>

SchemeBwv == <<"b", "w", "v">>

N331 == <<"3", "3", "1">>

N300i == <<"3", "0", "0", "i">>

N846 == <<"8", "4", "6">>

Beethoven == <<"b", "e", "e", "t", "h", "o", "v", "e", "n">>

SchemeOp == <<"o", "p">>

N2 == <<"2">>

N2_1 == <<"2", "/", "1">>

N2_2 == <<"2", "/", "2">>

N7 == <<"7">>

N10 == <<"1", "0">>

\* Composition ids; the first two characters name the shard directory, so
\* the files lie in different directories and any scan order can occur.
IdPool == <<"ab123456", "cd789012", "ef345678">>

Ids == {IdPool[i] : i \in 1..MaxDocs}

\* Catalog lists of one entry or of two different entries.
CatalogLists(entries) ==
    {<<e>> : e \in entries}
    \cup {p \in entries \X entries : p[1] # p[2]}

WtcCollection == <<"b", "a", "c", "h", "/", "w", "t", "c">>

\* collections/bach/wtc.json
CollectionsOnDisk ==
    [c \in {WtcCollection} |-> <<AttributionEntry(Some(Bach), None, None)>>]

\* Works of one composer in one scheme, no editions; a work that takes its
\* composer from a collection; a file that does not parse.
DocsPlain(id) ==
    {Composition(id, <<AttributionEntry(Some(Mozart), None, Some(c))>>) :
        c \in CatalogLists({CatalogEntry(SchemeK, n, None) : n \in {N331, N300i}})}
    \cup {Composition(id, <<AttributionEntry(None, Some(WtcCollection),
                                             Some(<<CatalogEntry(SchemeBwv, N846, None)>>))>>)}
    \cup {Unparseable}

Ed9 == <<"9">>

Ed10 == <<"1", "0">>

\* Works of one composer in one scheme, every entry tagged with an edition.
DocsEditions(id) ==
    {Composition(id, <<AttributionEntry(Some(Mozart), None, Some(c))>>) :
        c \in CatalogLists({CatalogEntry(SchemeK, N331, Some(Ed9)),
                             CatalogEntry(SchemeK, N331, Some(Ed10)),
                             CatalogEntry(SchemeK, N300i, Some(Ed10))})}

Trees(Docs(_)) ==
    UNION {{t \in [S -> UNION {Docs(i) : i \in S}] : \A i \in S : t[i] \in Docs(i)} :
              S \in SUBSET Ids}

\* Works of one composer in the opus scheme, one number each.
DocsOpus(id) ==
    {Composition(id, <<AttributionEntry(Some(Beethoven), None,
                                        Some(<<CatalogEntry(SchemeOp, n, None)>>))>>) :
        n \in {N2_1, N2_2, N7, N10}}

\* The definition of test_opus_subnumber_sort.
OpusDefinition ==
    CatalogDefinition(Some(PatOpus),
                      Some(<<SortKey(1, "int"), SortKey(2, "int"), SortKey(3, "str")>>),
                      None, None)

NoDefinitions == [composer |-> EmptyMap, global |-> EmptyMap]

\* catalogs/op.json holds the opus definition.
OpusOnDisk == [composer |-> EmptyMap, global |-> [s \in {SchemeOp} |-> OpusDefinition]]

NoQuery == [kind |-> "none"]

\* No library function is called directly: the run is a command of the tool.
NoCall == [fn |-> "none"]

\* The file system at time 0: a readable tree, no file written yet, no
\* .indexes directory.
NoFiles ==
    [now |-> 0, modified |-> EmptyMap, readable |-> TRUE, index_json |-> None,
     composer_json |-> None]

InitWith(trees, defs) ==
    /\ compositions \in trees
    /\ collections = CollectionsOnDisk
    /\ catalog_defs \in defs
    /\ pc = "idle"
    /\ todo = {}
    /\ index = IndexDefault
    /\ edition_entries = << >>
    /\ query = NoQuery
    /\ result = NoQuery
    /\ call = NoCall
    /\ ret = None
    /\ files = NoFiles

Init == InitWith(Trees(DocsPlain), {NoDefinitions})

InitEd == InitWith(Trees(DocsEditions), {NoDefinitions})

InitQ == InitWith(Trees(DocsOpus), {NoDefinitions, OpusOnDisk})

---------------------------------------------------------------------------
(* build_index                                                             *)

\* Lines 52-63: a fresh index, and the directory scan begins.
StartBuild ==
    /\ pc = "idle"
    /\ pc' = "scanning"
    /\ todo' = DOMAIN compositions
    /\ index' = IndexDefault
    /\ edition_entries' = << >>
    /\ UNCHANGED <<compositions, collections, catalog_defs, query, result, call, ret, files>>

\* Lines 75-117: the scan yields one more file, in any order.
ScanFile ==
    /\ pc = "scanning"
    /\ \E id \in todo :
          LET st == ScanDocument(index, edition_entries, compositions[id], collections)
          IN  /\ index' = st.index
              /\ edition_entries' = st.edition_entries
              /\ todo' = todo \ {id}
    /\ UNCHANGED <<compositions, collections, catalog_defs, pc, query, result, call, ret, files>>

\* Lines 120-122: the scan is over; the cumulative edition maps are built.
FinishBuild ==
    /\ pc = "scanning"
    /\ todo = {}
    /\ \E pairs \in Perms(SchemePairs(edition_entries)) :
          \E id_order \in [SchemePairs(edition_entries) -> Perms(DOMAIN compositions)] :
              index' = build_cumulative_editions(index, edition_entries, pairs, id_order)
    /\ pc' = "built"
    /\ UNCHANGED <<compositions, collections, catalog_defs, todo, edition_entries,
                   query, result, call, ret, files>>

---------------------------------------------------------------------------
(* The queries the model asks of a built index.                            *)

Nobody == <<"n", "o", "b", "o", "d", "y">>

SchemeZ == <<"z">>

N300I == <<"3", "0", "0", "I">>

N33 == <<"3", "3">>

N999 == <<"9", "9", "9">>

\* The (composer, scheme) pairs of the index.
IndexedPairs ==
    UNION {{<<c, s>> : s \in DOMAIN index.catalog[c]} : c \in DOMAIN index.catalog}

\* A composer the index does not have, and a scheme the composer does not have.
MissingPairs == {<<Nobody, SchemeK>>} \cup {<<p[1], SchemeZ>> : p \in IndexedPairs}

\* Numbers asked for in a scheme: indexed ones, one in another letter case,
\* and ones no composition carries (a prefix of an indexed one among them).
NumberProbes(scheme) ==
    IF scheme = SchemeK THEN {N331, N300i, N300I, N33}
    ELSE IF scheme = SchemeOp THEN {N2, N2_1, N7, N999}
    ELSE {N846, N999}

GroupProbes(scheme) == IF scheme = SchemeOp THEN {N2, N7} ELSE {N33}

RangeProbes(scheme) ==
    IF scheme = SchemeOp THEN {<<N2_1, N7>>, <<N2, N2>>, <<N2_2, N10>>}
    ELSE {<<N300i, N331>>}

EditionProbes(pair) ==
    IF EditionKey(pair[1], pair[2]) \in DOMAIN index.editions THEN {Ed9, Ed10} ELSE {}

BaseQuery(pair) ==
    QueryBuilder_scheme(QueryBuilder_composer(QueryDefault, pair[1]), pair[2])

WithDataDir(qs) == qs \cup {QueryBuilder_data_dir(q) : q \in qs}

\* composer + scheme + number, strict or not, with or without an edition.
NumberQueries ==
    UNION {{QueryBuilder_strict(QueryBuilder_number(BaseQuery(p), n), b) :
               n \in NumberProbes(p[2]), b \in BOOLEAN} : p \in IndexedPairs}
    \cup UNION {{QueryBuilder_edition(QueryBuilder_number(BaseQuery(p), n), e) :
                    n \in NumberProbes(p[2]), e \in EditionProbes(p)} : p \in IndexedPairs}
    \cup {QueryBuilder_number(BaseQuery(p), N331) : p \in MissingPairs}

\* composer + scheme: strict or not, sorted or not, with or without an edition.
ListingQueries ==
    UNION {{QueryBuilder_strict(BaseQuery(p), b) : b \in BOOLEAN}
           \cup {QueryBuilder_sorted(BaseQuery(p))}
           \cup {QueryBuilder_edition(BaseQuery(p), e) : e \in EditionProbes(p)} :
              p \in IndexedPairs}
    \cup {BaseQuery(p) : p \in MissingPairs}

GroupQueries ==
    UNION {{QueryBuilder_group(BaseQuery(p), g) : g \in GroupProbes(p[2])} :
              p \in IndexedPairs}

RangeQueries ==
    UNION {{QueryBuilder_range(BaseQuery(p), r[1], r[2]) : r \in RangeProbes(p[2])} :
              p \in IndexedPairs}

ComposerQueries ==
    {QueryBuilder_composer(QueryDefault, c) : c \in (DOMAIN index.by_composer) \cup {Nobody}}

FetchOneQueries == NumberQueries \cup ComposerQueries

FetchQueries ==
    WithDataDir(NumberQueries \cup GroupQueries \cup RangeQueries)
    \cup ListingQueries \cup ComposerQueries

\* One run of the program answers one query: commands/get.rs obtains the
\* index and calls fetch once.
\* QueryBuilder::fetch_one on the built index.
FetchOne ==
    /\ pc = "built"
    /\ \E q \in FetchOneQueries :
          /\ query' = q
          /\ result' = [kind |-> "fetch_one", value |-> fetch_one(index, q)]
    /\ pc' = "answered"
    /\ UNCHANGED <<compositions, collections, catalog_defs, todo, index,
                   edition_entries, call, ret, files>>

\* QueryBuilder::fetch on the built index.
Fetch ==
    /\ pc = "built"
    /\ \E q \in FetchQueries :
          \E iter \in IterOrders(index, q) :
              /\ query' = q
              /\ result' = [kind |-> "fetch", iter |-> iter,
                            value |-> fetch(index, catalog_defs, q, iter)]
    /\ pc' = "answered"
    /\ UNCHANGED <<compositions, collections, catalog_defs, todo, index,
                   edition_entries, call, ret, files>>

Next == StartBuild \/ ScanFile \/ FinishBuild \/ FetchOne \/ Fetch

Spec == Init /\ [][Next]_vars

SpecEd == InitEd /\ [][Next]_vars

SpecQ == InitQ /\ [][Next]_vars

---------------------------------------------------------------------------
(* Properties of the number lookup (query.rs, index.rs)                    *)

Built == pc \in {"built", "answered"}

\* A composer + scheme + number query without an edition has been answered
\* by the operation kind ("fetch_one" or "fetch").
IsNumberQuery(kind) ==
    /\ pc = "answered"
    /\ result.kind = kind
    /\ IsSome(query.composer) /\ IsSome(query.scheme) /\ IsSome(query.number)
    /\ ~IsSome(query.edition)

\* The SchemeIndex of the queried composer and scheme (empty when absent).
Queried == SchemeIndexOf(index, Unwrap(query.composer), Unwrap(query.scheme))

\* The tree holds one composition, by Mozart, with the given catalog list.
OnlyDoc(catalog) ==
    \E id \in DOMAIN compositions :
        /\ DOMAIN compositions = {id}
        /\ compositions[id] =
               Composition(id, <<AttributionEntry(Some(Mozart), None, Some(catalog))>>)

OnlyId == CHOOSE id \in DOMAIN compositions : TRUE

K331Then300i == <<CatalogEntry(SchemeK, N331, None), CatalogEntry(SchemeK, N300i, None)>>

\* C1: for a composer + scheme + number query without an edition, fetch_one
\* returns the id under `current` when the number is a key there; otherwise
\* the id under `superseded` in non-strict mode, and None in strict mode for
\* a number that is only in `superseded`.  A composition indexed alone with
\* the numbers [331, 300i] is found under both numbers in non-strict mode and
\* only under 331 in strict mode.
C1_FetchOneCurrentThenSuperseded ==
    IsNumberQuery("fetch_one") =>
        /\ Unwrap(query.number) \in DOMAIN Queried.current
              => result.value = Some(Queried.current[Unwrap(query.number)])
        /\ (/\ Unwrap(query.number) \notin DOMAIN Queried.current
            /\ Unwrap(query.number) \in DOMAIN Queried.superseded)
              => result.value = IF query.strict THEN None
                                ELSE Some(Queried.superseded[Unwrap(query.number)])
        /\ (/\ OnlyDoc(K331Then300i)
            /\ query.composer = Some(Mozart) /\ query.scheme = Some(SchemeK))
              => /\ query.number = Some(N331) => result.value = Some(OnlyId)
                 /\ query.number = Some(N300i)
                       => result.value = IF query.strict THEN None ELSE Some(OnlyId)

\* C1 witness: strict fetch_one of 300i over the composition [331, 300i]
\* returned None although 300i is a key of `superseded`.
C1_StrictMissesSuperseded ==
    /\ IsNumberQuery("fetch_one")
    /\ OnlyDoc(K331Then300i)
    /\ query.number = Some(N300i) /\ query.strict
    /\ N300i \in DOMAIN Queried.superseded
    /\ result.value = None

\* C2: fetch() of a number found only in `superseded` (non-strict) returns
\* exactly one result, superseded, whose current_number is a key of `current`
\* with the same composition id when such a key exists and None otherwise; a
\* number found in `current` gives one result with superseded = false and no
\* current_number; no result of fetch() carries a current_number unless it is
\* superseded and `current` holds that key with the result's id.
C2_SupersededResultNamesCurrent ==
    (pc = "answered" /\ result.kind = "fetch") =>
        /\ \A i \in 1..Len(result.value) :
              IsSome(result.value[i].current_number) =>
                  /\ result.value[i].superseded
                  /\ Unwrap(result.value[i].current_number) \in DOMAIN Queried.current
                  /\ Queried.current[Unwrap(result.value[i].current_number)]
                         = result.value[i].id
        /\ (IsNumberQuery("fetch")
            /\ Unwrap(query.number) \in DOMAIN Queried.current)
              => result.value =
                     <<QueryResult(Queried.current[Unwrap(query.number)], query.number,
                                   FALSE, None)>>
        /\ (/\ IsNumberQuery("fetch")
            /\ Unwrap(query.number) \notin DOMAIN Queried.current
            /\ Unwrap(query.number) \in DOMAIN Queried.superseded
            /\ ~query.strict)
              => /\ Len(result.value) = 1
                 /\ result.value[1].superseded
                 /\ result.value[1].number = query.number
                 /\ result.value[1].id = Queried.superseded[Unwrap(query.number)]
                 /\ IF \E k \in DOMAIN Queried.current :
                          Queried.current[k] = result.value[1].id
                    THEN /\ IsSome(result.value[1].current_number)
                         /\ Queried.current[Unwrap(result.value[1].current_number)]
                                = result.value[1].id
                    ELSE result.value[1].current_number = None

\* C2 witness: fetch() of 300i returned one superseded result that names 331
\* as the current number.
C2_SupersededWithCurrentNumber ==
    /\ IsNumberQuery("fetch")
    /\ query.number = Some(N300i)
    /\ Len(result.value) = 1
    /\ result.value[1].superseded
    /\ result.value[1].current_number = Some(N331)

\* C5: for every composer and scheme, no catalog number is a key of both
\* `current` and `superseded`, whatever documents were scanned in whatever
\* order.
C5_CurrentAndSupersededDisjoint ==
    \A c \in DOMAIN index.catalog :
        \A s \in DOMAIN index.catalog[c] :
            (DOMAIN index.catalog[c][s].current)
                \cap (DOMAIN index.catalog[c][s].superseded) = {}

\* C10: a composer + scheme + number query returns the same id whatever the
\* letter case of the queried number: the same as the query of the
\* normalised number.
C10_NumberCaseInsensitive ==
    IsNumberQuery("fetch_one") =>
        result.value =
            fetch_one(index, QueryBuilder_number(
                                 query, normalize_catalog_number(Unwrap(query.number))))

---------------------------------------------------------------------------
(* Properties of the cumulative editions (index.rs)                        *)

ModelPairs == {<<Mozart, SchemeK>>, <<Bach, SchemeBwv>>, <<Beethoven, SchemeOp>>}

\* The edition-tagged catalog entries that composition id carries under the
\* composer and scheme of pair, read from the document.
TaggedEntries(id, pair) ==
    IF ~IsParseable(compositions[id]) THEN {}
    ELSE UNION {{cat \in Range(Unwrap(a.catalog)) :
                    cat.scheme = pair[2] /\ IsSome(cat.edition)} :
                a \in {b \in Range(compositions[id].attribution) :
                          /\ IsSome(b.catalog)
                          /\ resolve_composer(b, collections) = Some(pair[1])}}

\* The numeric value of an edition label.
EditionNumber(label) == ParseI32OrZero(label)

\* The edition labels recorded for pair.
Labels(pair) ==
    {Unwrap(cat.edition) :
        cat \in UNION {TaggedEntries(id, pair) : id \in DOMAIN compositions}}

\* The entries of composition id with the highest edition numerically <= E.
InForce(id, pair, E) ==
    {cat \in TaggedEntries(id, pair) :
        /\ EditionNumber(Unwrap(cat.edition)) <= EditionNumber(E)
        /\ \A o \in TaggedEntries(id, pair) :
              EditionNumber(Unwrap(o.edition)) <= EditionNumber(E)
                  => EditionNumber(Unwrap(o.edition))
                         <= EditionNumber(Unwrap(cat.edition))}

\* editions["composer-scheme"][E], empty when absent.
EditionsOf(pair, E) ==
    IF /\ EditionKey(pair[1], pair[2]) \in DOMAIN index.editions
       /\ E \in DOMAIN index.editions[EditionKey(pair[1], pair[2])]
    THEN index.editions[EditionKey(pair[1], pair[2])][E]
    ELSE EmptyMap

\* The labels that editions["composer-scheme"] holds a map for.
EditionLabels(pair) ==
    IF EditionKey(pair[1], pair[2]) \in DOMAIN index.editions
    THEN DOMAIN index.editions[EditionKey(pair[1], pair[2])]
    ELSE {}

C4_EditionEntriesInForce ==
    Built =>
        /\ DOMAIN index.editions \subseteq {EditionKey(p[1], p[2]) : p \in ModelPairs}
        /\ \A pair \in ModelPairs : \A E \in EditionLabels(pair) :
              \A n \in DOMAIN EditionsOf(pair, E) :
                  /\ EditionsOf(pair, E)[n] \in DOMAIN compositions
                  /\ \E cat \in InForce(EditionsOf(pair, E)[n], pair, E) : cat.number = n

\* C4 witness: a work that is 331 at edition 9 and 300i at edition 10: the
\* map of edition 9 holds 331 alone, that of edition 10 holds 300i alone.
C4_RenumberedWork ==
    /\ Built
    /\ OnlyDoc(<<CatalogEntry(SchemeK, N300i, Some(Ed10)),
                 CatalogEntry(SchemeK, N331, Some(Ed9))>>)
    /\ DOMAIN EditionsOf(<<Mozart, SchemeK>>, Ed9) = {N331}
    /\ DOMAIN EditionsOf(<<Mozart, SchemeK>>, Ed10) = {N300i}
    /\ EditionsOf(<<Mozart, SchemeK>>, Ed10)[N300i] = OnlyId

---------------------------------------------------------------------------
(* Properties of the scheme listing (query.rs)                             *)

\* A composer + scheme query without an edition has been answered by fetch.
IsSchemeFetch ==
    /\ pc = "answered"
    /\ result.kind = "fetch"
    /\ IsSome(query.composer) /\ IsSome(query.scheme)
    /\ ~IsSome(query.edition)

\* The catalog definition the query loads, if any.
Loaded ==
    QueryDefinition(catalog_defs, query, Unwrap(query.composer), Unwrap(query.scheme))

\* The numbers of the results, and the numbers in result order.
ResultNumbers == {result.value[i].number : i \in 1..Len(result.value)}

\* Every result is a current entry of the queried scheme, each number once.
ResultsAreCurrent ==
    /\ Len(result.value) = Cardinality(ResultNumbers)
    /\ \A i \in 1..Len(result.value) :
          /\ ~result.value[i].superseded
          /\ IsSome(result.value[i].number)
          /\ Unwrap(result.value[i].number) \in DOMAIN Queried.current
          /\ result.value[i].id = Queried.current[Unwrap(result.value[i].number)]

\* The `current` numbers of the queried scheme that belong to group.
GroupMembers(group) ==
    {n \in DOMAIN Queried.current : matches_group(n, group, Loaded)}

\* C6: fetch() with composer + scheme + group returns exactly the `current`
\* numbers n with matches_group(n, group, definition), the prefix test when
\* no definition is available; never a number outside the group nor a
\* superseded one.
C6_GroupQueryReturnsMembers ==
    (IsSchemeFetch /\ IsSome(query.group) /\ ~IsSome(query.number)) =>
        /\ ResultsAreCurrent
        /\ ResultNumbers = {Some(n) : n \in GroupMembers(Unwrap(query.group))}

\* The sort key the range filter compares by: that of the loaded definition,
\* the number itself when none is loaded.
RangeKey(n) == IF IsSome(Loaded) THEN sort_key(n, Unwrap(Loaded)) ELSE <<SortStr(n)>>

\* The `current` numbers whose key lies between the key of start and the
\* inclusive ceiling of the key of end.
RangeMembers(start, end) ==
    {n \in DOMAIN Queried.current :
        /\ KeyCmp(RangeKey(n), RangeKey(start)) # Less
        /\ KeyCmp(RangeKey(n), make_inclusive_ceiling(RangeKey(end))) # Greater}

\* C7: fetch() with composer + scheme + range(start, end) returns exactly the
\* `current` numbers whose sort key k has
\* sort_key(start) <= k <= inclusive_ceiling(sort_key(end)), both bounds
\* included, in sort-key order.
C7_RangeQueryInclusive ==
    (IsSchemeFetch /\ IsSome(query.range_start) /\ IsSome(query.range_end)) =>
        /\ ResultsAreCurrent
        /\ ResultNumbers =
               {Some(n) : n \in RangeMembers(Unwrap(query.range_start),
                                             Unwrap(query.range_end))}
        /\ \A i, j \in 1..Len(result.value) :
              i < j => KeyCmp(RangeKey(Unwrap(result.value[i].number)),
                              RangeKey(Unwrap(result.value[j].number))) # Greater

\* C7 witness: with the opus definition loaded, the range from 2 to 2 over
\* the entries 2/1 and 7 returned 2/1, which only the ceiling of the end key
\* admits, and not 7.
C7_CeilingAdmitsSubnumber ==
    /\ IsSchemeFetch
    /\ IsSome(Loaded)
    /\ query.range_start = Some(N2) /\ query.range_end = Some(N2)
    /\ DOMAIN Queried.current = {N2_1, N7}
    /\ ResultNumbers = {Some(N2_1)}

\* C8: a query that names a composer not in the index, a scheme not indexed
\* for the composer, or a number that no indexed entry of the scheme equals
\* or belongs to as a group, returns None from fetch_one and an empty list
\* from fetch, whether or not a catalog definition can be loaded.
C8_MissReturnsNothing ==
    (/\ pc = "answered"
     /\ IsSome(query.composer) /\ IsSome(query.scheme) /\ ~IsSome(query.edition)
     /\ ~IsSome(query.group) /\ ~IsSome(query.range_start)
     /\ \/ Unwrap(query.composer) \notin DOMAIN index.catalog
        \/ Unwrap(query.scheme) \notin DOMAIN index.catalog[Unwrap(query.composer)]
        \/ /\ IsSome(query.number)
           /\ Unwrap(query.number) \notin DOMAIN Queried.current
           /\ Unwrap(query.number) \notin DOMAIN Queried.superseded
           /\ \A n \in (DOMAIN Queried.current) \cup (DOMAIN Queried.superseded) :
                 ~matches_group(n, Unwrap(query.number), Loaded))
        => result.value = << >>

\* C9: when fetch() is given composer + scheme + number and the number is
\* found neither in `current` nor (non-strict) in `superseded`, the result is
\* the list the query with the number cleared and the group set to it
\* returns, i.e. the scheme's current entries filtered by group membership.
C9_NumberBecomesGroup ==
    (/\ IsNumberQuery("fetch")
     /\ Unwrap(query.number) \notin DOMAIN Queried.current
     /\ query.strict \/ Unwrap(query.number) \notin DOMAIN Queried.superseded)
        => /\ result.value =
                  fetch(index, catalog_defs,
                        QueryBuilder_group([query EXCEPT !.number = None],
                                           Unwrap(query.number)),
                        result.iter)
           /\ ResultsAreCurrent
           /\ ResultNumbers = {Some(n) : n \in GroupMembers(Unwrap(query.number))}

---------------------------------------------------------------------------
(* Direct calls of the catalog functions (catalog.rs)                      *)

\* Length of the longest list handed to sort_numbers.
MaxLen == 3

N02 == <<"0", "2">>

N2i == <<"2", "i">>

N2v == <<"2", "v">>

NX == <<"x">>

NBillion == <<"1", "0", "0", "0", "0", "0", "0", "0", "0", "0">>

\* The numbers keys are computed for.
KeyNumbers == {N2, N02, N2_1, N2_2, N10, N2i, N2v, NX, NBillion}

\* The numbers the sorted lists are made of.
SortNumbers == {N2, N02, N2_1, N10, NX}

SortTypes == {"int", "roman", "str"}

\* The sort_keys of a definition: absent, one declared field of any capture
\* group and type, or the three fields of the opus definition.
SortKeyLists ==
    {None, OpusDefinition.sort_keys}
    \cup {Some(<<SortKey(g, t)>>) : g \in 1..3, t \in SortTypes}

\* Definitions with and without a pattern, compiling or not.
KeyDefinitions ==
    {CatalogDefinition(p, sks, None, None) :
        p \in {None, Some(PatOpus), Some(PatNumeric), Some(PatInvalid)},
        sks \in SortKeyLists}

\* The opus definition grouping by its first capture group only.
OpusByMajor == [OpusDefinition EXCEPT !.group_by = Some(<<1>>)]

Lists(pool, n) == UNION {[1..k -> pool] : k \in 0..n}

\* Length of the longest key vector that is compared.
MaxKey == 2

\* Values of every variant of SortValue; 10 and 2 as numbers and as text.
SortValues == {NoneFirst, NoneLast, SortInt(2), SortInt(10), SortStr(N10), SortStr(N2)}

\* The numerals of test_parse_roman, in either case, and texts that are not
\* numerals.
RomanTexts ==
    {<<"I">>, <<"I", "V">>, <<"I", "X">>, <<"X", "I", "V">>, <<"X", "L", "I", "I">>,
     <<"M", "C", "M", "X", "C", "I", "V">>, <<"i", "v">>, <<"X", "i", "v">>,
     <<"x", "l", "i", "i">>, <<"I", "I", "I", "I">>, <<"V", "X">>, <<"I", "M">>,
     <<"I", "A">>, <<"2">>, <<"x", "-", "i">>, << >>}

KeyCalls ==
    {[fn |-> "sort_key", number |-> n, defn |-> d] :
        n \in KeyNumbers, d \in KeyDefinitions}
    \cup {[fn |-> "matches_group", number |-> n, group |-> g, defn |-> d] :
             n \in KeyNumbers, g \in {N2, N10, NX},
             d \in {None, Some(OpusByMajor)} \cup {Some(k) : k \in KeyDefinitions}}
    \cup {[fn |-> "sort_numbers", numbers |-> l, defn |-> d] :
             l \in Lists(SortNumbers, MaxLen),
             d \in {None} \cup {Some(k) : k \in KeyDefinitions}}
    \cup {[fn |-> "cmp", a |-> a, b |-> b] :
             a \in Lists(SortValues, MaxKey), b \in Lists(SortValues, MaxKey)}
    \cup {[fn |-> "make_inclusive_ceiling", key |-> sort_key(n, d), end |-> n, defn |-> d] :
             n \in KeyNumbers, d \in KeyDefinitions}
    \cup {[fn |-> "parse_roman", s |-> t] : t \in RomanTexts}

\* A program that links the library and calls one catalog function.
InitKeys ==
    /\ compositions = EmptyMap
    /\ collections = EmptyMap
    /\ catalog_defs = NoDefinitions
    /\ pc = "idle"
    /\ todo = {}
    /\ index = IndexDefault
    /\ edition_entries = << >>
    /\ query = NoQuery
    /\ result = NoQuery
    /\ call \in KeyCalls
    /\ ret = None
    /\ files = NoFiles

CallSortKey ==
    /\ call.fn = "sort_key"
    /\ ret = None
    /\ ret' = Some(sort_key(call.number, call.defn))
    /\ UNCHANGED <<compositions, collections, catalog_defs, pc, todo, index,
                   edition_entries, query, result, call, files>>

CallMatchesGroup ==
    /\ call.fn = "matches_group"
    /\ ret = None
    /\ ret' = Some(matches_group(call.number, call.group, call.defn))
    /\ UNCHANGED <<compositions, collections, catalog_defs, pc, todo, index,
                   edition_entries, query, result, call, files>>

CallSortNumbers ==
    /\ call.fn = "sort_numbers"
    /\ ret = None
    /\ ret' = Some(sort_numbers(call.numbers, call.defn))
    /\ UNCHANGED <<compositions, collections, catalog_defs, pc, todo, index,
                   edition_entries, query, result, call, files>>

\* Vec<SortValue>::cmp
CallCmp ==
    /\ call.fn = "cmp"
    /\ ret = None
    /\ ret' = Some(KeyCmp(call.a, call.b))
    /\ UNCHANGED <<compositions, collections, catalog_defs, pc, todo, index,
                   edition_entries, query, result, call, files>>

\* make_inclusive_ceiling on the key of a range end.
CallMakeInclusiveCeiling ==
    /\ call.fn = "make_inclusive_ceiling"
    /\ ret = None
    /\ ret' = Some(make_inclusive_ceiling(call.key))
    /\ UNCHANGED <<compositions, collections, catalog_defs, pc, todo, index,
                   edition_entries, query, result, call, files>>

CallParseRoman ==
    /\ call.fn = "parse_roman"
    /\ ret = None
    /\ ret' = Some(parse_roman(call.s))
    /\ UNCHANGED <<compositions, collections, catalog_defs, pc, todo, index,
                   edition_entries, query, result, call, files>>

NextKeys ==
    \/ CallSortKey
    \/ CallMatchesGroup
    \/ CallSortNumbers
    \/ CallCmp
    \/ CallMakeInclusiveCeiling
    \/ CallParseRoman

SpecKeys == InitKeys /\ [][NextKeys]_vars

---------------------------------------------------------------------------
(* Properties of the catalog functions (catalog.rs)                        *)

Returned(fn) == call.fn = fn /\ IsSome(ret)

\* C11: under the opus definition of the unit tests (group_by unset),
\* matches_group says that 2, 2/1 and 2/2 belong to group 2 and that 10 does
\* not.
C11_OpusGroupMembership ==
    (/\ Returned("matches_group")
     /\ call.defn = Some(OpusDefinition)
     /\ call.group = N2
     /\ call.number \in {N2, N2_1, N2_2, N10})
    => (Unwrap(ret) = (call.number \in {N2, N2_1, N2_2}))

\* The number is matched by the pattern of the definition.
Matches(number, defn) ==
    /\ IsSome(defn.pattern)
    /\ RegexCompiles(Unwrap(defn.pattern))
    /\ IsSome(RegexCaptures(Unwrap(defn.pattern), number))

\* C12: a number the pattern does not match, or whose pattern does not
\* compile, gets the sentinel key; that key is strictly greater than the key
\* of every number the pattern matches, and two such numbers are ordered by
\* their raw text.
C12_SentinelKeySortsLast ==
    (/\ Returned("sort_key")
     /\ IsSome(call.defn.pattern)
     /\ ~Matches(call.number, call.defn))
    => /\ ret = Some(SentinelKey(call.number))
       /\ \A b \in KeyNumbers :
             IF Matches(b, call.defn)
             THEN KeyCmp(sort_key(b, call.defn), Unwrap(ret)) = Less
             ELSE KeyCmp(Unwrap(ret), sort_key(b, call.defn)) = StrCmp(call.number, b)

\* The text of the capture groups the sort keys of the definition declare.
DeclaredFields(number, defn) ==
    IF ~IsSome(defn.sort_keys) THEN <<Some(number)>>
    ELSE LET captures == Unwrap(RegexCaptures(Unwrap(defn.pattern), number))
             sks      == Unwrap(defn.sort_keys)
         IN  [i \in 1..Len(sks) |->
                 IF sks[i].group <= Len(captures) THEN captures[sks[i].group] ELSE None]

\* C13: two numbers matched by the same pattern have equal keys only if
\* their captured fields are the same text.
C13_EqualKeysOnlyForEqualFields ==
    (Returned("sort_key") /\ Matches(call.number, call.defn))
    => \A b \in KeyNumbers :
          (Matches(b, call.defn) /\ sort_key(b, call.defn) = Unwrap(ret))
          => DeclaredFields(b, call.defn) = DeclaredFields(call.number, call.defn)

Occurrences(list, x) == Cardinality({i \in 1..Len(list) : list[i] = x})

\* The elements of list that compare equal to x, in the order of list.
EqualTo(list, x, defn) == SelectSeq(list, LAMBDA y : NumberCmp(y, x, defn) = Equal)

\* C14: sort_numbers returns a permutation of its input, keeps the input
\* order of the numbers that compare equal, and sorting its output again
\* changes nothing.
C14_SortNumbersStableIdempotent ==
    Returned("sort_numbers")
    => /\ sort_numbers(Unwrap(ret), call.defn) = Unwrap(ret)
       /\ Len(Unwrap(ret)) = Len(call.numbers)
       /\ \A x \in SortNumbers :
             /\ Occurrences(Unwrap(ret), x) = Occurrences(call.numbers, x)
             /\ EqualTo(Unwrap(ret), x, call.defn) = EqualTo(call.numbers, x, call.defn)

\* A list was reordered that holds two different numbers with equal keys.
C14_ReorderedWithEqualKeys ==
    /\ Returned("sort_numbers")
    /\ Unwrap(ret) # call.numbers
    /\ \E i, j \in 1..Len(call.numbers) :
          /\ i < j
          /\ call.numbers[i] # call.numbers[j]
          /\ NumberCmp(call.numbers[i], call.numbers[j], call.defn) = Equal

---------------------------------------------------------------------------
(* Merging attribution entries (merge.rs)                                  *)

\* Number of attribution entries of the list that is merged or filtered.
MaxEntries == 3

\* struct Dates
Dates(composed, published, premiered, revised) ==
    [composed |-> composed, published |-> published, premiered |-> premiered,
     revised |-> revised]

\* impl Default for Dates
DatesDefault == Dates(None, None, None, None)

\* AttributionEntry with the fields merge.rs reads.
DatedEntry(composer, dates, status, catalog, since, note) ==
    [composer |-> composer, dates |-> dates, status |-> status, catalog |-> catalog,
     since |-> since, note |-> note]

\* MergedAttribution::default()
MergedAttributionDefault ==
    [composer |-> None, dates |-> DatesDefault, status |-> None, catalog |-> << >>,
     notes |-> << >>]

\* A variant of merge_dates in which the overlay overwrites the base.
merge_dates_overwriting(base, overlay) ==
    Dates(IF IsSome(overlay.composed) THEN overlay.composed ELSE base.composed,
          IF IsSome(overlay.published) THEN overlay.published ELSE base.published,
          IF IsSome(overlay.premiered) THEN overlay.premiered ELSE base.premiered,
          IF IsSome(overlay.revised) THEN overlay.revised ELSE base.revised)

merge_dates(base, overlay) ==
    Dates(IF ~IsSome(base.composed) THEN overlay.composed ELSE base.composed,
          IF ~IsSome(base.published) THEN overlay.published ELSE base.published,
          IF ~IsSome(base.premiered) THEN overlay.premiered ELSE base.premiered,
          IF ~IsSome(base.revised) THEN overlay.revised ELSE base.revised)

\* A variant of MergeCatalog that leaves out the entries the result already has.
MergeCatalogWithoutDuplicates(catalog, entry) ==
    IF IsSome(entry.catalog)
    THEN catalog \o SelectSeq(Unwrap(entry.catalog), LAMBDA c : c \notin Range(catalog))
    ELSE catalog

\* Lines 58-60: result.catalog.extend(catalog.iter().cloned()).
MergeCatalog(catalog, entry) ==
    IF IsSome(entry.catalog) THEN catalog \o Unwrap(entry.catalog) ELSE catalog

\* Lines 50-65: the body of the loop over the entries.
MergeEntry(merged, entry) ==
    [composer |-> IF ~IsSome(merged.composer) THEN entry.composer ELSE merged.composer,
     dates    |-> IF IsSome(entry.dates) THEN merge_dates(merged.dates, Unwrap(entry.dates))
                  ELSE merged.dates,
     status   |-> merged.status,
     catalog  |-> MergeCatalog(merged.catalog, entry),
     notes    |-> IF IsSome(entry.note) THEN Append(merged.notes, Unwrap(entry.note))
                  ELSE merged.notes]

RECURSIVE MergeEntries(_, _)
MergeEntries(merged, entries) ==
    IF entries = << >> THEN merged
    ELSE MergeEntries(MergeEntry(merged, Head(entries)), Tail(entries))

merge_attribution(entries) ==
    MergeEntries([MergedAttributionDefault EXCEPT
                     !.status = IF entries # << >> THEN entries[1].status ELSE None],
                 entries)

\* An AttributionEntry of the index builder with all the fields of the
\* struct: dates, status, since and note are absent from the document.
FullEntry(attr) ==
    [composer |-> attr.composer, cf |-> attr.cf, dates |-> None, status |-> None,
     catalog |-> attr.catalog, since |-> None, note |-> None]

\* Lines 121-138: the attribution of a collection as one entry.
merge_collection_attribution(attribution) ==
    IF attribution = << >> THEN None
    ELSE Some([composer |-> merge_attribution(attribution).composer,
               cf       |-> None,
               dates    |-> Some(merge_attribution(attribution).dates),
               status   |-> merge_attribution(attribution).status,
               catalog  |-> IF merge_attribution(attribution).catalog = << >> THEN None
                            ELSE Some(merge_attribution(attribution).catalog),
               since    |-> None,
               note     |-> None])

\* Lines 112-119; colls holds the collection files that load.
load_collection_attribution(colls, collection_id) ==
    IF collection_id \in DOMAIN colls
    THEN merge_collection_attribution([i \in DOMAIN colls[collection_id] |->
                                          FullEntry(colls[collection_id][i])])
    ELSE None

\* Lines 79-88: composer and dates of the entry filled from the collection.
FillFrom(entry, coll_entry) ==
    [entry EXCEPT
        !.composer = IF ~IsSome(entry.composer) THEN coll_entry.composer ELSE entry.composer,
        !.dates    = IF ~IsSome(entry.dates) THEN coll_entry.dates ELSE entry.dates]

\* Lines 77-94: the body of the loop over the entries.
Expand(entry, colls) ==
    IF IsSome(entry.cf) /\ IsSome(load_collection_attribution(colls, Unwrap(entry.cf)))
    THEN FillFrom(entry, Unwrap(load_collection_attribution(colls, Unwrap(entry.cf))))
    ELSE entry

merge_attribution_with_collections(entries, colls) ==
    merge_attribution([i \in DOMAIN entries |-> Expand(entries[i], colls)])

\* A variant of state_as_of that drops the entries dated at the cutoff itself.
state_before(entries, date) ==
    SelectSeq(entries, LAMBDA e : ~IsSome(e.since) \/ StrLess(Unwrap(e.since), date))

state_as_of(entries, date) ==
    SelectSeq(entries, LAMBDA e : ~IsSome(e.since) \/ StrLeq(Unwrap(e.since), date))

Y19 == <<"1", "9">>

Y1850 == <<"1", "8", "5", "0">>

Y1899 == <<"1", "8", "9", "9">>

Y1900 == <<"1", "9", "0", "0">>

K331 == CatalogEntry(SchemeK, N331, None)

K300i == CatalogEntry(SchemeK, N300i, None)

\* Attribution entries that set and leave unset every field merge.rs reads.
DatedEntries ==
    {DatedEntry(None, None, None, None, None, None),
     DatedEntry(Some(Mozart), Some(Dates(Some(1785), None, None, None)),
                Some("certain"), Some(<<K331>>), Some(Y1850), Some("first")),
     DatedEntry(Some(Bach), Some(Dates(Some(1790), Some(1791), None, None)),
                Some("doubtful"), Some(<<K300i, K331>>), Some(Y1900), None),
     DatedEntry(None, Some(Dates(None, Some(1800), Some(1801), Some(1802))),
                Some("spurious"), Some(<< >>), Some(Y19), Some("second")),
     DatedEntry(Some(Bach), Some(DatesDefault), None, Some(<<K331>>), Some(Y1850), None)}

MergeCalls ==
    {[fn |-> "merge_attribution", entries |-> l] : l \in Lists(DatedEntries, MaxEntries)}
    \cup {[fn |-> "state_as_of", entries |-> l, date |-> d] :
             l \in Lists(DatedEntries, MaxEntries), d \in {Y19, Y1850, Y1899}}

\* A program that links the library and calls one function of merge.rs.
InitMerge ==
    /\ compositions = EmptyMap
    /\ collections = EmptyMap
    /\ catalog_defs = NoDefinitions
    /\ pc = "idle"
    /\ todo = {}
    /\ index = IndexDefault
    /\ edition_entries = << >>
    /\ query = NoQuery
    /\ result = NoQuery
    /\ call \in MergeCalls
    /\ ret = None
    /\ files = NoFiles

CallMergeAttribution ==
    /\ call.fn = "merge_attribution"
    /\ ret = None
    /\ ret' = Some(merge_attribution(call.entries))
    /\ UNCHANGED <<compositions, collections, catalog_defs, pc, todo, index,
                   edition_entries, query, result, call, files>>

CallStateAsOf ==
    /\ call.fn = "state_as_of"
    /\ ret = None
    /\ ret' = Some(state_as_of(call.entries, call.date))
    /\ UNCHANGED <<compositions, collections, catalog_defs, pc, todo, index,
                   edition_entries, query, result, call, files>>

NextMerge == CallMergeAttribution \/ CallStateAsOf

SpecMerge == InitMerge /\ [][NextMerge]_vars

---------------------------------------------------------------------------
(* Properties of merge.rs                                                  *)

\* The first value of a list of options that is set, None if there is none.
FirstSet(options) ==
    IF \E i \in 1..Len(options) : IsSome(options[i])
    THEN options[CHOOSE i \in 1..Len(options) :
                    /\ IsSome(options[i])
                    /\ \A j \in 1..(i - 1) : ~IsSome(options[j])]
    ELSE None

\* The date fields of the entries, entry by entry; an entry without dates
\* sets none.
DatesOf(entries) ==
    [i \in 1..Len(entries) |->
        IF IsSome(entries[i].dates) THEN Unwrap(entries[i].dates) ELSE DatesDefault]

\* C15: the merged status is that of the first entry, the merged composer
\* that of the first entry that has one, and every merged date that of the
\* first entry that sets it.
C15_MergeTakesFirstSet ==
    Returned("merge_attribution")
    => /\ Unwrap(ret).status =
             (IF call.entries = << >> THEN None ELSE call.entries[1].status)
       /\ Unwrap(ret).composer =
             FirstSet([i \in 1..Len(call.entries) |-> call.entries[i].composer])
       /\ Unwrap(ret).dates.composed =
             FirstSet([i \in 1..Len(call.entries) |-> DatesOf(call.entries)[i].composed])
       /\ Unwrap(ret).dates.published =
             FirstSet([i \in 1..Len(call.entries) |-> DatesOf(call.entries)[i].published])
       /\ Unwrap(ret).dates.premiered =
             FirstSet([i \in 1..Len(call.entries) |-> DatesOf(call.entries)[i].premiered])
       /\ Unwrap(ret).dates.revised =
             FirstSet([i \in 1..Len(call.entries) |-> DatesOf(call.entries)[i].revised])

\* The first entry sets neither composer nor status, two later entries
\* disagree on a date, and the merge took composer and date from the earlier
\* of the two.
C15_LaterEntriesFillGaps ==
    /\ Returned("merge_attribution")
    /\ Len(call.entries) = 3
    /\ ~IsSome(call.entries[1].composer)
    /\ ~IsSome(call.entries[1].status)
    /\ IsSome(call.entries[2].status)
    /\ Unwrap(ret).composer = Some(Mozart)
    /\ call.entries[3].composer = Some(Bach)
    /\ Unwrap(ret).dates.composed = Some(1785)
    /\ DatesOf(call.entries)[3].composed = Some(1790)
    /\ Unwrap(ret).dates.published = Some(1791)

\* The catalog lists of the entries, entry by entry; an entry without a
\* catalog contributes nothing.
CatalogsOf(entries) ==
    [i \in 1..Len(entries) |->
        IF IsSome(entries[i].catalog) THEN Unwrap(entries[i].catalog) ELSE << >>]

RECURSIVE TotalLen(_, _)
TotalLen(lists, n) == IF n = 0 THEN 0 ELSE TotalLen(lists, n - 1) + Len(lists[n])

\* C16: the merged catalog is the catalogs of the entries one after the
\* other, in entry order, duplicates included: its length is the sum of
\* their lengths.
C16_MergedCatalogIsConcatenation ==
    Returned("merge_attribution")
    => /\ Len(Unwrap(ret).catalog)
             = TotalLen(CatalogsOf(call.entries), Len(call.entries))
       /\ \A i \in 1..Len(call.entries) :
             \A k \in 1..Len(CatalogsOf(call.entries)[i]) :
                 Unwrap(ret).catalog[TotalLen(CatalogsOf(call.entries), i - 1) + k]
                     = CatalogsOf(call.entries)[i][k]

\* Two entries list the same catalog entry and the merged catalog holds it
\* twice.
C16_DuplicateKept ==
    /\ Returned("merge_attribution")
    /\ \E i, j \in 1..Len(call.entries) :
          /\ i < j
          /\ K331 \in Range(CatalogsOf(call.entries)[i])
          /\ K331 \in Range(CatalogsOf(call.entries)[j])
    /\ Cardinality({k \in 1..Len(Unwrap(ret).catalog) : Unwrap(ret).catalog[k] = K331}) >= 2

\* The positions of the entries in force at the cutoff.
InForceAt(entries, date) ==
    {i \in 1..Len(entries) :
        ~IsSome(entries[i].since) \/ StrLeq(Unwrap(entries[i].since), date)}

\* C17: state_as_of returns, in their original order, exactly the entries
\* whose since is absent or not after the cutoff as text.
C17_StateAsOfFilters ==
    Returned("state_as_of")
    => /\ Len(Unwrap(ret)) = Cardinality(InForceAt(call.entries, call.date))
       /\ \A i \in InForceAt(call.entries, call.date) :
             Unwrap(ret)[Cardinality({j \in InForceAt(call.entries, call.date) : j <= i})]
                 = call.entries[i]

\* An entry dated at the cutoff and an undated entry are kept, a later one
\* is dropped.
C17_CutoffEntryKept ==
    /\ Returned("state_as_of")
    /\ Len(Unwrap(ret)) = 2
    /\ Len(call.entries) = 3
    /\ \E i \in 1..3 : call.entries[i].since = Some(call.date)
    /\ \E i \in 1..3 : call.entries[i].since = None
    /\ \E i \in 1..3 : /\ IsSome(call.entries[i].since)
                      /\ StrLess(call.date, Unwrap(call.entries[i].since))

---------------------------------------------------------------------------
(* Properties of the scheme listing (query.rs)                             *)

\* fetch() has answered a composer + scheme query without number or edition.
IsListing == IsSchemeFetch /\ ~IsSome(query.number)

Unfiltered == ~IsSome(query.group) /\ ~IsSome(query.range_start) /\ ~query.strict

\* The (number, id) pairs of the results with the given superseded flag.
ResultPairs(flag) ==
    {<<result.value[i].number, result.value[i].id>> :
        i \in {j \in 1..Len(result.value) : result.value[j].superseded = flag}}

TablePairs(table) == {<<Some(n), table[n]>> : n \in DOMAIN table}

\* C18: a scheme listing returns the superseded entries, marked superseded,
\* exactly when it has no group filter, no range filter and is not strict;
\* otherwise every result is an entry of `current` that is not marked.
C18_ListingShowsSupersededUnlessFiltered ==
    IsListing
    => /\ ResultPairs(FALSE) \subseteq TablePairs(Queried.current)
       /\ ResultPairs(TRUE) =
             (IF Unfiltered THEN TablePairs(Queried.superseded) ELSE {})

---------------------------------------------------------------------------
(* Properties of the directory scan (index.rs)                             *)

\* The scan loop of build_index over the files of docs in the given order.
RECURSIVE ScanAll(_, _, _, _)
ScanAll(st, order, docs, colls) ==
    IF order = << >> THEN st
    ELSE ScanAll(ScanDocument(st.index, st.edition_entries, docs[Head(order)], colls),
                 Tail(order), docs, colls)

\* The files the scan has yielded that load_composition accepts.
ScannedGood == {id \in (DOMAIN compositions) \ todo : IsParseable(compositions[id])}

\* The scan states of the tree without the files that fail to load, over
\* the scan orders of the files yielded so far.
GoodScans ==
    {ScanAll(ScanState(IndexDefault, << >>), order, compositions, collections) :
        order \in Perms(ScannedGood)}

\* The indexes build_index returns for a scan state.
Finished(st) ==
    {build_cumulative_editions(st.index, st.edition_entries, pairs, id_order) :
        pairs \in Perms(SchemePairs(st.edition_entries)),
        id_order \in [SchemePairs(st.edition_entries) -> Perms(DOMAIN compositions)]}

\* C19: a file that cannot be read or parsed is skipped: the scan goes on to
\* the end, and the index is at every step, and when built, one that the
\* tree without the bad files yields.
C19_BadFileSkipped ==
    /\ pc = "scanning"
       => /\ \E st \in GoodScans :
                st.index = index /\ st.edition_entries = edition_entries
          /\ ENABLED (ScanFile \/ FinishBuild)
    /\ pc = "built"
       => \E st \in GoodScans : index \in Finished(st)

\* A tree with a bad file and a good one has been indexed.
C19_BuiltDespiteBadFile ==
    /\ pc = "built"
    /\ \E id \in DOMAIN compositions : ~IsParseable(compositions[id])
    /\ ScannedGood # {}
    /\ index.by_composer # EmptyMap

---------------------------------------------------------------------------
(* The persisted index (index.rs, commands/index.rs)                       *)

\* Latest time of the file system clock.
MaxClock == 2

\* A variant of is_any_newer that takes no document for newer.
is_never_newer(fs, docs, threshold) == ~fs.readable

\* Lines 241-264: some directory of the tree cannot be read, or some
\* document was modified after the threshold.  fs.modified[id] is None when
\* fs::metadata or modified() fails for the document, which is then passed
\* over.
is_any_newer(fs, docs, threshold) ==
    \/ ~fs.readable
    \/ \E id \in DOMAIN docs :
          IsSome(fs.modified[id]) /\ Unwrap(fs.modified[id]) > threshold

\* fs.index_json is None when the file is missing; its modified is None when
\* fs::metadata or modified() fails.
index_is_stale(fs, docs) ==
    IF ~IsSome(fs.index_json) THEN TRUE
    ELSE IF ~IsSome(Unwrap(fs.index_json).modified) THEN TRUE
    ELSE is_any_newer(fs, docs, Unwrap(Unwrap(fs.index_json).modified))

\* The content of a persisted file is None when serde_json rejects it.
load_index(fs) ==
    IF ~IsSome(fs.index_json) \/ ~IsSome(fs.composer_json) THEN None
    ELSE IF ~IsSome(Unwrap(fs.index_json).catalog) THEN None
    ELSE IF ~IsSome(Unwrap(fs.composer_json)) THEN None
    ELSE Some([catalog     |-> Unwrap(Unwrap(fs.index_json).catalog),
               by_composer |-> Unwrap(Unwrap(fs.composer_json)),
               editions    |-> EmptyMap])

\* The indexes build_index can return: the scan order and the iteration
\* order of the edition maps are unspecified.
build_index(fs, docs, colls) ==
    IF ~fs.readable THEN {IndexDefault}
    ELSE UNION {Finished(ScanAll(ScanState(IndexDefault, << >>), order, docs, colls)) :
                   order \in Perms(DOMAIN docs)}

get_or_build_index(fs, docs, colls) ==
    IF ~index_is_stale(fs, docs) /\ IsSome(load_index(fs))
    THEN {Unwrap(load_index(fs))}
    ELSE build_index(fs, docs, colls)

StoreIds == {IdPool[1], IdPool[2]}

\* Works of one composer in one scheme, with or without an edition.
DocsStored(id) ==
    {Composition(id, <<AttributionEntry(Some(Mozart), None, Some(<<c>>))>>) :
        c \in {K331, K300i, CatalogEntry(SchemeK, N331, Some(Ed9))}}

\* A program that links the library and obtains the index of a data
\* directory that is empty at first.
InitStore ==
    /\ compositions = EmptyMap
    /\ collections = CollectionsOnDisk
    /\ catalog_defs = NoDefinitions
    /\ pc = "idle"
    /\ todo = {}
    /\ index = IndexDefault
    /\ edition_entries = << >>
    /\ query = NoQuery
    /\ result = NoQuery
    /\ call = [fn |-> "get_or_build_index"]
    /\ ret = None
    /\ files = NoFiles

\* The clock of the file system advances.
Tick ==
    /\ ret = None
    /\ files.now < MaxClock
    /\ files' = [files EXCEPT !.now = files.now + 1]
    /\ UNCHANGED <<compositions, collections, catalog_defs, pc, todo, index,
                   edition_entries, query, result, call, ret>>

\* A document is created or overwritten.
WriteDocument ==
    /\ ret = None
    /\ \E id \in StoreIds :
          \E doc \in DocsStored(id) :
              /\ compositions' = insert(compositions, id, doc)
              /\ files' = [files EXCEPT
                              !.modified = insert(files.modified, id, Some(files.now))]
    /\ UNCHANGED <<collections, catalog_defs, pc, todo, index, edition_entries, query,
                   result, call, ret>>

\* commands/index.rs run: build_index, then write_index and
\* write_composer_index.
WriteIndex ==
    /\ ret = None
    /\ \E idx \in build_index(files, compositions, collections) :
          files' = [files EXCEPT
                       !.index_json = Some([modified |-> Some(files.now),
                                            catalog  |-> Some(idx.catalog)]),
                       !.composer_json = Some(Some(idx.by_composer))]
    /\ UNCHANGED <<compositions, collections, catalog_defs, pc, todo, index,
                   edition_entries, query, result, call, ret>>

\* The faults the code provides for: a directory that cannot be read, a
\* document that cannot be stat'ed, a persisted file that is missing, cannot
\* be stat'ed or does not parse.
Faults ==
    {[files EXCEPT !.readable = FALSE],
     [files EXCEPT !.index_json = None],
     [files EXCEPT !.composer_json = None]}
    \cup {[files EXCEPT !.modified[id] = None] : id \in DOMAIN files.modified}
    \cup (IF IsSome(files.index_json)
          THEN {[files EXCEPT !.index_json = Some([Unwrap(files.index_json) EXCEPT
                                                      !.modified = None])],
                [files EXCEPT !.index_json = Some([Unwrap(files.index_json) EXCEPT
                                                      !.catalog = None])]}
          ELSE {})
    \cup (IF IsSome(files.composer_json)
          THEN {[files EXCEPT !.composer_json = Some(None)]}
          ELSE {})

Fault ==
    /\ ret = None
    /\ files' \in Faults \ {files}
    /\ UNCHANGED <<compositions, collections, catalog_defs, pc, todo, index,
                   edition_entries, query, result, call, ret>>

GetOrBuildIndex ==
    /\ call.fn = "get_or_build_index"
    /\ ret = None
    /\ \E idx \in get_or_build_index(files, compositions, collections) : ret' = Some(idx)
    /\ UNCHANGED <<compositions, collections, catalog_defs, pc, todo, index,
                   edition_entries, query, result, call, files>>

NextStore == Tick \/ WriteDocument \/ WriteIndex \/ Fault \/ GetOrBuildIndex

SpecStore == InitStore /\ [][NextStore]_vars

---------------------------------------------------------------------------
(* Properties of the persisted index (index.rs)                            *)

\* index.json exists and can be stat'ed, the tree can be read and holds no
\* document with a modification time newer than that of index.json, and
\* both persisted files load.
Fresh ==
    /\ IsSome(files.index_json)
    /\ IsSome(Unwrap(files.index_json).modified)
    /\ files.readable
    /\ \A id \in DOMAIN compositions :
          IsSome(files.modified[id])
          => Unwrap(files.modified[id]) <= Unwrap(Unwrap(files.index_json).modified)
    /\ IsSome(Unwrap(files.index_json).catalog)
    /\ IsSome(files.composer_json)
    /\ IsSome(Unwrap(files.composer_json))

---------------------------------------------------------------------------
(* Documents with several attribution entries                              *)

ComposerA == <<"a">>

ComposerAB == <<"a", "-", "b">>

SchemeC == <<"c">>

SchemeBC == <<"b", "-", "c">>

K846 == CatalogEntry(SchemeBwv, N846, None)

\* A collection whose first attribution entry names no composer.
WtcHeadless == <<AttributionEntry(None, None, None), AttributionEntry(Some(Bach), None, None)>>

\* Attribution lists in which two entries name the same composer, an entry
\* delegates to a collection, alone or beside one that names the same composer, an entry
\* resolves to no composer, and composer and scheme names with a hyphen.
DocsAttributed(id) ==
    {Composition(id, a) :
        a \in {<<AttributionEntry(Some(Mozart), None, Some(<<K331>>))>>,
               <<AttributionEntry(Some(Mozart), None, Some(<<K300i, K331>>))>>,
               <<AttributionEntry(Some(Mozart), None, Some(<<K331>>)),
                 AttributionEntry(Some(Mozart), None, Some(<<K300i>>))>>,
               <<AttributionEntry(None, Some(WtcCollection), Some(<<K846>>))>>,
               <<AttributionEntry(None, Some(WtcCollection), Some(<<K846>>)),
                 AttributionEntry(Some(Bach), None, Some(<<K846>>))>>,
               <<AttributionEntry(None, None, Some(<<K331>>)),
                 AttributionEntry(Some(Mozart), None, Some(<<K331>>))>>,
               <<AttributionEntry(Some(ComposerAB), None,
                                  Some(<<CatalogEntry(SchemeC, N846, Some(Ed9))>>))>>,
               <<AttributionEntry(Some(ComposerA), None,
                                  Some(<<CatalogEntry(SchemeBC, N999, Some(Ed9))>>))>>}}

InitAttr ==
    /\ compositions \in Trees(DocsAttributed)
    /\ collections \in {CollectionsOnDisk, [c \in {WtcCollection} |-> WtcHeadless]}
    /\ catalog_defs = NoDefinitions
    /\ pc = "idle"
    /\ todo = {}
    /\ index = IndexDefault
    /\ edition_entries = << >>
    /\ query = NoQuery
    /\ result = NoQuery
    /\ call = NoCall
    /\ ret = None
    /\ files = NoFiles

SpecAttr == InitAttr /\ [][Next]_vars

---------------------------------------------------------------------------
(* Properties of the scan of one document (index.rs)                       *)

\* The positions <<i, k>> of the catalog entries of a document whose
\* attribution entry i resolves to a composer.
Positions(doc) ==
    {p \in (1..Len(doc.attribution)) \X (1..2) :
        /\ IsSome(resolve_composer(doc.attribution[p[1]], collections))
        /\ IsSome(doc.attribution[p[1]].catalog)
        /\ p[2] <= Len(Unwrap(doc.attribution[p[1]].catalog))}

PositionPair(doc, p) ==
    <<Unwrap(resolve_composer(doc.attribution[p[1]], collections)),
      Unwrap(doc.attribution[p[1]].catalog)[p[2]].scheme>>

PositionNumber(doc, p) == Unwrap(doc.attribution[p[1]].catalog)[p[2]].number

Earlier(p, q) == p[1] < q[1] \/ (p[1] = q[1] /\ p[2] < q[2])

\* The first position of the document for its (composer, scheme).
IsFirst(doc, p) ==
    \A q \in Positions(doc) : PositionPair(doc, q) = PositionPair(doc, p) => ~Earlier(q, p)

FirstNumbers(doc, pair) ==
    {PositionNumber(doc, p) :
        p \in {q \in Positions(doc) : PositionPair(doc, q) = pair /\ IsFirst(doc, q)}}

LaterNumbers(doc, pair) ==
    {PositionNumber(doc, p) :
        p \in {q \in Positions(doc) : PositionPair(doc, q) = pair /\ ~IsFirst(doc, q)}}

\* The document the scan yields in this step.
ScannedId == CHOOSE id \in todo : id \notin todo'

ScannedDoc == compositions[ScannedId]

\* Every (composer, scheme) of the index before or after the step.
PairsAround ==
    UNION {{<<c, sch>> : sch \in DOMAIN index.catalog[c]} : c \in DOMAIN index.catalog}
    \cup UNION {{<<c, sch>> : sch \in DOMAIN index'.catalog[c]} : c \in DOMAIN index'.catalog}

\* What the scan of one parseable document does to the tables of pair.
FirstCurrentLaterSuperseded(doc, id, pair) ==
    LET before == SchemeIndexOf(index, pair[1], pair[2])
        after  == SchemeIndexOf(index', pair[1], pair[2])
        added  == {n \in LaterNumbers(doc, pair) : n \notin DOMAIN after.current}
    IN  /\ DOMAIN after.current = (DOMAIN before.current) \cup FirstNumbers(doc, pair)
        /\ \A n \in DOMAIN after.current :
              after.current[n] = IF n \in FirstNumbers(doc, pair) THEN id
                                 ELSE before.current[n]
        /\ DOMAIN after.superseded = (DOMAIN before.superseded) \cup added
        /\ \A n \in DOMAIN after.superseded :
              after.superseded[n] = IF n \in added THEN id ELSE before.superseded[n]

\* C21: the scan of a document puts the first catalog entry of each
\* (composer, scheme) into `current`, and every later one into `superseded`
\* unless its number is a key of `current`, which then stays as it is.
C21_FirstCurrentLaterSuperseded ==
    [][(pc = "scanning" /\ todo' # todo /\ IsParseable(ScannedDoc))
       => /\ \A p \in Positions(ScannedDoc) : PositionPair(ScannedDoc, p) \in PairsAround
          /\ \A pair \in PairsAround :
                FirstCurrentLaterSuperseded(ScannedDoc, ScannedId, pair)]_vars

\* A document that lists the same number twice is indexed once, as current,
\* and another document has a current and a superseded number.
C21_LaterEntrySkippedAndKept ==
    /\ pc = "built"
    /\ \E id \in DOMAIN compositions :
          /\ LaterNumbers(compositions[id], <<Bach, SchemeBwv>>) = {N846}
          /\ SchemeIndexOf(index, Bach, SchemeBwv).current = [n \in {N846} |-> id]
          /\ SchemeIndexOf(index, Bach, SchemeBwv).superseded = EmptyMap
    /\ \E id \in DOMAIN compositions :
          /\ LaterNumbers(compositions[id], <<Mozart, SchemeK>>) # {}
          /\ id \in Range(SchemeIndexOf(index, Mozart, SchemeK).superseded)

\* The composers the attribution entries of a document resolve to.
ResolvedComposers(doc) ==
    {Unwrap(resolve_composer(doc.attribution[i], collections)) :
        i \in {j \in 1..Len(doc.attribution) :
                  IsSome(resolve_composer(doc.attribution[j], collections))}}

IdsOf(idx, composer) ==
    IF composer \in DOMAIN idx.by_composer THEN idx.by_composer[composer] ELSE << >>

\* C22: the scan of a document appends its id to by_composer[composer] once
\* for every composer its attribution entries resolve to, and touches no
\* other list: the lists hold the ids in scan order, each once per document.
C22_RegisteredOncePerComposer ==
    [][(pc = "scanning" /\ todo' # todo /\ IsParseable(ScannedDoc))
       => /\ DOMAIN index'.by_composer
                = (DOMAIN index.by_composer) \cup ResolvedComposers(ScannedDoc)
          /\ \A c \in DOMAIN index'.by_composer :
                index'.by_composer[c] =
                    IF c \in ResolvedComposers(ScannedDoc)
                    THEN Append(IdsOf(index, c), ScannedId)
                    ELSE IdsOf(index, c)]_vars

\* Two documents are registered under one composer, one of them with two
\* attribution entries that resolve to that composer.
C22_TwoEntriesOneRegistration ==
    /\ pc = "built"
    /\ \E c \in DOMAIN index.by_composer :
          /\ Len(index.by_composer[c]) = 2
          /\ index.by_composer[c][1] # index.by_composer[c][2]
          /\ \E id \in DOMAIN compositions :
                \E i, j \in 1..Len(compositions[id].attribution) :
                    /\ i < j
                    /\ resolve_composer(compositions[id].attribution[i], collections) = Some(c)
                    /\ resolve_composer(compositions[id].attribution[j], collections) = Some(c)

---------------------------------------------------------------------------
(* Properties of the key order (catalog.rs, query.rs)                      *)

\* The place of a variant in the order NoneFirst < Int < Str < NoneLast.
Rank(v) ==
    CASE v.tag = "NoneFirst" -> 0 [] v.tag = "Int" -> 1 [] v.tag = "Str" -> 2
      [] v.tag = "NoneLast" -> 3

\* The order of two values by rank, then numerically or as text.
ByRank(a, b) ==
    IF Rank(a) # Rank(b) THEN IntCmp(Rank(a), Rank(b))
    ELSE IF a.tag = "Int" THEN IntCmp(a.int, b.int)
    ELSE IF a.tag = "Str" THEN StrCmp(a.str, b.str)
    ELSE Equal

\* The positions at which two vectors differ.
Differing(a, b) ==
    {i \in 1..Len(a) : i <= Len(b) /\ a[i] # b[i]}

\* The lexicographic order of two vectors: the first differing position
\* decides, and a proper prefix is smaller.
Lexicographic(a, b) ==
    IF Differing(a, b) # {}
    THEN ByRank(a[MaxOf({0 - i : i \in Differing(a, b)}) * (0 - 1)],
                b[MaxOf({0 - i : i \in Differing(a, b)}) * (0 - 1)])
    ELSE IntCmp(Len(a), Len(b))

\* C23: the comparison of SortValues is a total order with
\* NoneFirst < Int < Str < NoneLast, Int by number and Str by text, and key
\* vectors are compared lexicographically by it.
C23_SortValueTotalOrder ==
    Returned("cmp")
    => /\ Unwrap(ret) = Lexicographic(call.a, call.b)
       /\ Unwrap(ret) \in {Less, Equal, Greater}
       /\ (Unwrap(ret) = Equal) = (call.a = call.b)
       /\ (Unwrap(ret) = Less) = (KeyCmp(call.b, call.a) = Greater)
       /\ (Len(call.a) = 1 /\ Len(call.b) = 1)
          => \A c \in SortValues :
                (Unwrap(ret) # Greater /\ SortValueCmp(call.b[1], c) # Greater)
                => SortValueCmp(call.a[1], c) # Greater

\* An Int was compared with a Str and found smaller, although it is the
\* larger one as text.
C23_IntBelowStr ==
    /\ Returned("cmp")
    /\ call.a = <<SortInt(2)>>
    /\ call.b = <<SortStr(N10)>>
    /\ Unwrap(ret) = Less

\* C24: for one definition sort_key returns keys of one length for every
\* number, matching or not.
C24_KeysOfEqualLength ==
    Returned("sort_key")
    => \A b \in KeyNumbers : Len(sort_key(b, call.defn)) = Len(Unwrap(ret))

\* The first position of the run of NoneFirst values at the end of key;
\* Len(key) + 1 when the key does not end with NoneFirst.
TrailingRun(key) ==
    CHOOSE r \in 1..(Len(key) + 1) :
        /\ \A i \in r..Len(key) : key[i] = NoneFirst
        /\ r > 1 => key[r - 1] # NoneFirst

\* The numbers of the pool the pattern matches whose keys agree with key
\* before position r.
AgreeingNumbers(key, r, defn) ==
    {b \in KeyNumbers :
        /\ Matches(b, defn)
        /\ \A i \in 1..(r - 1) : sort_key(b, defn)[i] = key[i]}

\* C25: make_inclusive_ceiling turns exactly the trailing NoneFirst values
\* of the end key into NoneLast, and every matching number whose key agrees
\* with the end key before them is not greater than the ceiling.
C25_CeilingCoversGroup ==
    Returned("make_inclusive_ceiling")
    => /\ Len(Unwrap(ret)) = Len(call.key)
       /\ \A i \in 1..Len(call.key) :
             Unwrap(ret)[i] = IF i >= TrailingRun(call.key) THEN NoneLast ELSE call.key[i]
       /\ Matches(call.end, call.defn)
          => \A b \in AgreeingNumbers(call.key, TrailingRun(call.key), call.defn) :
                KeyCmp(sort_key(b, call.defn), Unwrap(ret)) # Greater

\* The end key is a group with two fields left open, and a sub-entry of the
\* group lies above the end key and below the ceiling.
C25_SubEntryUnderCeiling ==
    /\ Returned("make_inclusive_ceiling")
    /\ call.defn = OpusDefinition
    /\ call.key = <<SortInt(2), NoneFirst, NoneFirst>>
    /\ Unwrap(ret) = <<SortInt(2), NoneLast, NoneLast>>
    /\ N2_1 \in AgreeingNumbers(call.key, 2, call.defn)
    /\ KeyCmp(sort_key(N2_1, call.defn), call.key) = Greater

\* The value of a symbol of a roman numeral.
Symbol == [c \in {"I", "V", "X", "L", "C", "D", "M"} |->
              CASE c = "I" -> 1 [] c = "V" -> 5 [] c = "X" -> 10 [] c = "L" -> 50
                [] c = "C" -> 100 [] c = "D" -> 500 [] c = "M" -> 1000]

\* The value of a numeral in subtractive notation from position i on: a
\* symbol smaller than the one to its right is subtracted.
RECURSIVE Subtractive(_, _)
Subtractive(s, i) ==
    IF i > Len(s) THEN 0
    ELSE (IF i < Len(s) /\ Symbol[s[i]] < Symbol[s[i + 1]] THEN 0 - Symbol[s[i]]
          ELSE Symbol[s[i]])
         + Subtractive(s, i + 1)

\* C26: parse_roman ignores case, returns 0 for a text with a character
\* that is not a roman symbol, and the subtractive value otherwise: I = 1,
\* IV = 4, IX = 9, XIV = 14, XLII = 42, MCMXCIV = 1994.
C26_RomanValue ==
    Returned("parse_roman")
    => /\ Unwrap(ret) = parse_roman(to_uppercase(call.s))
       /\ Unwrap(ret) = parse_roman(to_lowercase(call.s))
       /\ Unwrap(ret) =
             (IF \A i \in 1..Len(call.s) : to_uppercase(call.s)[i] \in DOMAIN Symbol
              THEN Subtractive(to_uppercase(call.s), 1)
              ELSE 0)
       /\ call.s = <<"I">> => Unwrap(ret) = 1
       /\ call.s = <<"I", "V">> => Unwrap(ret) = 4
       /\ call.s = <<"I", "X">> => Unwrap(ret) = 9
       /\ call.s = <<"X", "I", "V">> => Unwrap(ret) = 14
       /\ call.s = <<"X", "L", "I", "I">> => Unwrap(ret) = 42
       /\ call.s = <<"M", "C", "M", "X", "C", "I", "V">> => Unwrap(ret) = 1994

\* A numeral in lower case with a subtracted symbol was converted.
C26_LowerCaseSubtractive ==
    /\ Returned("parse_roman")
    /\ call.s = <<"x", "l", "i", "i">>
    /\ Unwrap(ret) = 42

---------------------------------------------------------------------------
(* Properties of collection delegation (index.rs, merge.rs)                *)

\* The attribution entries of a document that refer to a collection and name
\* no composer.
Delegating(doc) ==
    {i \in 1..Len(doc.attribution) :
        IsSome(doc.attribution[i].cf) /\ ~IsSome(doc.attribution[i].composer)}

\* The composer merge_attribution_with_collections resolves for one entry.
MergedComposer(attr) ==
    merge_attribution_with_collections(<<FullEntry(attr)>>, collections).composer

\* The index has the id under the composer, and each number of the entry in
\* the composer's catalog.
IndexedUnder(id, attr, composer) ==
    /\ composer \in DOMAIN index.by_composer
    /\ id \in Range(index.by_composer[composer])
    /\ IsSome(attr.catalog)
       => \A k \in 1..Len(Unwrap(attr.catalog)) :
             Unwrap(attr.catalog)[k].number
                \in DOMAIN SchemeIndexOf(index, composer, Unwrap(attr.catalog)[k].scheme).current
                    \cup DOMAIN SchemeIndexOf(index, composer,
                                              Unwrap(attr.catalog)[k].scheme).superseded

\* C27: an entry that refers to a collection and names no composer is indexed
\* under the composer merge_attribution_with_collections resolves for it,
\* the first composer named in the collection's attribution.
C27_IndexedUnderMergedComposer ==
    pc = "built"
    => \A id \in DOMAIN compositions :
          IsParseable(compositions[id])
          => \A i \in Delegating(compositions[id]) :
                /\ resolve_composer(compositions[id].attribution[i], collections)
                      = MergedComposer(compositions[id].attribution[i])
                /\ IsSome(MergedComposer(compositions[id].attribution[i]))
                   => IndexedUnder(compositions[id].id, compositions[id].attribution[i],
                                   Unwrap(MergedComposer(compositions[id].attribution[i])))

---------------------------------------------------------------------------
(* Queries on the persisted index (index.rs, query.rs)                     *)

MozartK == QueryBuilder_scheme(QueryBuilder_composer(QueryDefault, Mozart), SchemeK)

\* Composer-only, scheme listing and number lookup.
PlainQueries ==
    {QueryBuilder_composer(QueryDefault, Mozart), MozartK,
     QueryBuilder_number(MozartK, N331), QueryBuilder_number(MozartK, N300i)}

\* Number lookup and listing in an edition.
EditionQueries ==
    {QueryBuilder_number(QueryBuilder_edition(MozartK, Ed9), N331),
     QueryBuilder_edition(MozartK, Ed9)}

\* The results fetch can return for the query, over the iteration orders.
FetchResults(idx, q) ==
    {fetch(idx, catalog_defs, q, iter) : iter \in IterOrders(idx, q)}

\* Both indexes answer every query of the set alike.
SameAnswers(idx, other, queries) ==
    \A q \in queries :
        /\ fetch_one(idx, q) = fetch_one(other, q)
        /\ FetchResults(idx, q) = FetchResults(other, q)

\* get_or_build_index has returned while the persisted index was not stale
\* and loaded.
ReturnedPersisted ==
    /\ Returned("get_or_build_index")
    /\ ~index_is_stale(files, compositions)
    /\ IsSome(load_index(files))

\* C28: when the persisted index is not stale, the index get_or_build_index
\* returns answers composer-only, scheme listing, number and
\* edition-qualified queries as an index build_index returns for the same
\* documents does.
C28_PersistedAnswersAsBuilt ==
    ReturnedPersisted
    => \E built \in build_index(files, compositions, collections) :
          SameAnswers(Unwrap(ret), built, PlainQueries \cup EditionQueries)

---------------------------------------------------------------------------
(* Properties of the built index (index.rs)                                *)

\* C29: the catalog maps and the editions maps of the built index are those
\* of every index build_index can return for the same documents, whatever
\* the order in which the scan visits them.
C29_IndependentOfScanOrder ==
    pc = "built"
    => \A other \in build_index(files, compositions, collections) :
          /\ other.catalog = index.catalog
          /\ other.editions = index.editions

\* The ids the index holds for the composer in by_composer.
Registered(composer) ==
    IF composer \in DOMAIN index.by_composer THEN Range(index.by_composer[composer])
    ELSE {}

\* The composers and schemes whose name makes the key of an editions map.
KeyPairs(key) ==
    {pair \in {<<e.composer, e.scheme>> : e \in Range(edition_entries)} :
        EditionKey(pair[1], pair[2]) = key}

\* C30: every id in the current or superseded map of a composer's scheme,
\* and every id in an editions map of the composer and a scheme, is in
\* by_composer of that composer.
C30_IndexedIdsRegistered ==
    pc = "built"
    => /\ \A c \in DOMAIN index.catalog :
             \A s \in DOMAIN index.catalog[c] :
                 Range(index.catalog[c][s].current)
                    \cup Range(index.catalog[c][s].superseded) \subseteq Registered(c)
       /\ \A key \in DOMAIN index.editions :
             \A pair \in KeyPairs(key) :
                 \A e \in DOMAIN index.editions[key] :
                     Range(index.editions[key][e]) \subseteq Registered(pair[1])

===========================================================================
